---- MODULE Spec2Model ----
(***************************************************************************)
(* A model of the signal core and of the descriptor table of the Foreign  *)
(* Linux emulator (src/src/syscall/sig.c).                                 *)
(*                                                                         *)
(* Two threads take part in the signal core: the main (guest) thread,      *)
(* which runs the syscalls, and the signal worker (signal_thread), which   *)
(* consumes packets from the signal pipe and rewrites the main thread's    *)
(* context.  Each thread is a small program counter machine; a critical    *)
(* section is entered in one step and executed and left in the next.       *)
(***************************************************************************)
EXTENDS Integers, Sequences, FiniteSets, TLC

(* ------------------------------------------------------------ bounds --- *)
\* Number of requests made of the signal core in the unscripted runs: the
\* syscalls of the guest program and the signal_kill calls of other threads.
MaxCalls == 3
\* Number of child processes the guest may create.
MaxChildren == 2
\* The number of slots of the descriptor table (MAX_FD_COUNT of syscall/vfs.h).
MAX_FD_COUNT == 3
\* The number of file objects that can ever be allocated, the consoles included.
MaxFiles == 4
\* The number of references kernel callers hold at one time.
MaxBorrows == 1
\* The number of calls made to the descriptor table.
MaxVfsCalls == 5
\* The calls to the file layer in a behaviour that records each call.
MaxTracedCalls == 2
\* The length of the paths given to normalize_path.
MaxPathLen == 5
\* The number of symlinks vfs_open follows before it gives up.
MAX_SYMLINK_LEVEL == 3
\* The longest file name, in bytes of UTF-8, given to a fill callback.
MaxNameLen == 40

(* -------------------------------------------------- program constants --- *)
NSIG == 64
SIGKILL == 9
SIGUSR1 == 10
SIGCHLD == 17
SIGSTOP == 19
SIG_DFL == 0
SIG_IGN == 1
SIG_BLOCK == 0
SIG_UNBLOCK == 1
SIG_SETMASK == 2
SIGNAL_PACKET_SHUTDOWN == 0
SIGNAL_PACKET_KILL == 1
SIGNAL_PACKET_DELIVER == 2
SIGNAL_PACKET_ADD_PROCESS == 3
EINVAL == 22
EFAULT == 14
ESRCH == 3
EINTR == 4
EBADF == 9
EMFILE == 24
ENOENT == 2
ENOMEM == 12
\* sizeof(sigset_t)
SigsetSize == 8
F_DUPFD == 0
F_GETFD == 1
F_SETFD == 2
F_GETFL == 3
\* a command sys_fcntl does not handle
F_SETFL == 4
FD_CLOEXEC == 1
ELOOP == 40
EPERM == 1

(* --------------------------------------------------------- input sets --- *)
\* The signals the guest blocks, raises and handles in the model.
Sigs == {SIGUSR1, SIGCHLD}
\* The entries of the action table that the model keeps.
ActSigs == {SIGKILL, SIGUSR1, SIGCHLD, SIGSTOP}
\* signum arguments of rt_sigaction: two of them out of range.
SigactionNums == ActSigs \cup {-1, NSIG}
\* Addresses of guest code.
HandlerAddr == 4096
RestorerAddr == 8192
\* The emulator's own restorer (signal_restorer).
signal_restorer == 12288
\* si_code values of the requests, to tell two requests for one signal apart:
\* a child's death carries 0, a request of the main thread MainCode, a request
\* of another host thread ExtCode.
MainCode == 1
ExtCode == 2
SelfPid == 100
OtherPid == 200
Children == 1 .. MaxChildren

NullAct == [sa_handler |-> SIG_DFL, sa_mask |-> {}, sa_restorer |-> 0]
IgnAct == [sa_handler |-> SIG_IGN, sa_mask |-> {}, sa_restorer |-> 0]
PlainHandler == [sa_handler |-> HandlerAddr, sa_mask |-> {}, sa_restorer |-> 0]
MaskingHandler ==
    [sa_handler |-> HandlerAddr, sa_mask |-> {SIGCHLD}, sa_restorer |-> RestorerAddr]
\* The struct sigaction values the guest passes to rt_sigaction.
ActInputs == {NullAct, IgnAct, PlainHandler, MaskingHandler}
\* The action table signal_init sets up.
DefaultActions == [s \in ActSigs |-> NullAct]
\* An action table with a handler for each signal of Sigs, as two rt_sigaction
\* calls leave it.
HandlerActions ==
    [DefaultActions EXCEPT ![SIGUSR1] = MaskingHandler, ![SIGCHLD] = PlainHandler]

NoInfo == [si_signo |-> 0, si_code |-> 0]
NoPacket == [type |-> -1, info |-> NoInfo, proc |-> 0]
NoArgs == [call |-> "none", args |-> <<>>]
NoFrame == [pretcode |-> 0, sig |-> 0, info |-> NoInfo, uc_sigmask |-> {}, ip |-> 0]
AnyCall == [call |-> "any", args |-> <<>>]

VARIABLES
    \* struct signal_data
    actions, mask, pending, info, current_siginfo, can_accept_signal,
    sigevent, mutex, process_wait_semaphore,
    \* the signal pipe, the child processes and their death pipes
    pipe, children,
    \* the signal worker: its position, the packet it handles, its locals
    wpc, wpacket, winfo, wproc, wctx,
    \* the main thread: its position, the syscall's arguments, the frame being
    \* built, the signal frames on the guest stack, its thread state
    mpc, margs, frame, frames, suspended, ctx_signal, ret, script,
    \* observers: handler invocations per signal, ExitProcess, and a write of
    \* mask/pending/can_accept_signal made without the mutex
    invoked, exited, unlocked_write,
    \* struct vfs_data and the file objects
    fds, fds_cloexec, umask, ref, borrows, closes, vcalls, vfs_mapped,
    \* the observer of the file layer: how many calls it follows, and the last
    \* call with its arguments and return value
    vlimit, vlast,
    \* vfs_data.cwd, the path given to normalize_path, and what it and its
    \* re-applications to their own output returned
    cwd, path_in, outs,
    \* vfs_open: where it is, path, symlink_level, the calls it made to the
    \* file system, and its return value
    vopen,
    \* vfs->fs_first and the next pointers: the file systems, first to last
    mounts,
    \* the record a getdents fill callback is writing
    dent,
    \* the observer of the mount list: the file systems in the order vfs_add
    \* was called, and the last call of find_filesystem with what it returned
    lookup,
    \* sys_select: where it is, its arguments, the array it gives to sys_poll
    \* and the sets it hands back
    sel,
    \* the last syscall that took a descriptor: the descriptor, the indices of
    \* vfs->fds it read and wrote, and its return value
    fdcall

sigdata == <<actions, mask, pending, info, current_siginfo, can_accept_signal,
             sigevent, mutex, process_wait_semaphore>>
chanvars == <<pipe, children>>
workervars == <<wpc, wpacket, winfo, wproc, wctx>>
mainvars == <<mpc, margs, frame, frames, suspended, ctx_signal, ret, script>>
obsvars == <<invoked, exited, unlocked_write>>
sigvars == <<sigdata, chanvars, workervars, mainvars, obsvars>>
vfsvars == <<fds, fds_cloexec, umask, ref, borrows, closes, vcalls, vfs_mapped,
             vlimit, vlast>>
pathvars == <<cwd, path_in, outs, vopen, mounts, dent, lookup>>
pollvars == <<sel, fdcall>>
vars == <<sigvars, vfsvars, pathvars, pollvars>>

\* What an action of the signal core leaves alone.
SigOnly == UNCHANGED <<vfsvars, pathvars, pollvars>>
\* What an action of the descriptor table leaves alone.
VfsOnly == UNCHANGED <<sigvars, pathvars, pollvars>>

(* ------------------------------------------------------------ helpers --- *)
Min(S) == CHOOSE x \in S : \A y \in S : x <= y

KillPacket(i) == [type |-> SIGNAL_PACKET_KILL, info |-> i, proc |-> 0]
DeliverPacket == [type |-> SIGNAL_PACKET_DELIVER, info |-> NoInfo, proc |-> 0]
ShutdownPacket == [type |-> SIGNAL_PACKET_SHUTDOWN, info |-> NoInfo, proc |-> 0]
AddProcessPacket(c) == [type |-> SIGNAL_PACKET_ADD_PROCESS, info |-> NoInfo, proc |-> c]

\* The signals whose default action is ExitProcess.
DefaultFatal == {1, 2, 3, 4, 6, 8, 9, 11, 13, 14, 15, 10, 12}
signal_default_handler(i) == i.si_signo \in DefaultFatal

\* A pipe that hands out the newest packet first.
send_packet_Front(packet) == pipe' = <<packet>> \o pipe
\* WriteFile on the write end of the signal pipe.
send_packet(packet) == pipe' = Append(pipe, packet)

\* send_pending_signal without its test of pending & ~mask, in both ways.
send_pending_signal_Never(m) == UNCHANGED pipe
send_pending_signal_Always(m) == send_packet(DeliverPacket)

\* Called with the mutex held, after the mask has been assigned: m is the
\* value of signal->mask at the call.
send_pending_signal(m) ==
    IF pending \ m # {} THEN send_packet(DeliverPacket) ELSE UNCHANGED pipe

\* The mutex taken without waiting for its holder.
EnterCriticalSection_NoWait(t) == mutex' = t
EnterCriticalSection(t) == mutex = "none" /\ mutex' = t
LeaveCriticalSection(t) == mutex' = "none"
\* A write of mask, pending or can_accept_signal by thread t.
GuardedWrite(t) == unlocked_write' = (unlocked_write \/ mutex # t)

\* The guest program: a script of calls, each either fixed or free.
ScriptAllows(c) ==
    /\ script # <<>>
    /\ \/ Head(script).call = "any"
       \/ Head(script).call = c.call /\ Head(script).args = c.args
Call(name, args) == [call |-> name, args |-> args]
\* The result of the syscall that returned last: its name, its leading
\* argument, its value, and the number of script entries left at the return,
\* which tells one return from the next.
Return(call, arg, val) ==
    ret' = [call |-> call, arg |-> arg, val |-> val,
            n |-> IF mpc = "guest" THEN Len(script) - 1 ELSE Len(script)]
\* The main thread is executing guest code and is free to enter a syscall.
AtGuest == ~exited /\ ~suspended /\ mpc = "guest" /\ ~ctx_signal

(* --------------------------------------------------------------- Init --- *)
SigInit ==
    /\ pending = {}
    /\ info = [s \in Sigs |-> NoInfo]
    /\ current_siginfo = NoInfo
    /\ can_accept_signal = TRUE
    /\ sigevent = FALSE
    /\ mutex = "none"
    /\ process_wait_semaphore = 0
    /\ pipe = <<>>
    /\ children = [c \in Children |-> "none"]
    /\ wpc = "wait"
    /\ wpacket = NoPacket
    /\ winfo = NoInfo
    /\ wproc = 0
    /\ wctx = FALSE
    /\ mpc = "guest"
    /\ margs = NoArgs
    /\ frame = NoFrame
    /\ frames = <<>>
    /\ suspended = FALSE
    /\ ctx_signal = FALSE
    /\ ret = [call |-> "none", arg |-> 0, val |-> 0, n |-> 0]
    /\ invoked = [s \in Sigs |-> 0]
    /\ exited = FALSE
    /\ unlocked_write = FALSE

(* ------------------------------------------------- the signal worker --- *)
\* The switch with a SHUTDOWN case that goes back to the loop.
PacketCase_NoShutdown(type) ==
    CASE type = SIGNAL_PACKET_SHUTDOWN -> "wait"
      [] type = SIGNAL_PACKET_KILL -> "kill_enter"
      [] type = SIGNAL_PACKET_DELIVER -> "deliver_enter"
      [] type = SIGNAL_PACKET_ADD_PROCESS -> "add_process"
      [] OTHER -> "exited"

\* The switch on packet.type in signal_thread: where the worker goes next.
PacketCase(type) ==
    CASE type = SIGNAL_PACKET_SHUTDOWN -> "exited"
      [] type = SIGNAL_PACKET_KILL -> "kill_enter"
      [] type = SIGNAL_PACKET_DELIVER -> "deliver_enter"
      [] type = SIGNAL_PACKET_ADD_PROCESS -> "add_process"
      [] OTHER -> "exited"

\* GetQueuedCompletionStatus returns a packet of the signal pipe (key 0).
WorkerDequeue ==
    /\ ~exited /\ wpc = "wait" /\ pipe # <<>>
    /\ LET packet == Head(pipe) IN
       /\ pipe' = Tail(pipe)
       /\ wpacket' = packet
       /\ winfo' = packet.info
       /\ wproc' = 0
       /\ wpc' = PacketCase(packet.type)
    /\ UNCHANGED <<sigdata, children, wctx, mainvars, obsvars>>
    /\ SigOnly

\* GetQueuedCompletionStatus returns the completion of the read on a child's
\* death pipe (key = proc): signal_thread_handle_process_terminated(proc).
WorkerChildCompletion ==
    /\ ~exited /\ wpc = "wait"
    /\ \E c \in Children :
          /\ children[c] = "completed"
          /\ children' = [children EXCEPT ![c] = "handling"]
          /\ wproc' = c
    /\ winfo' = [si_signo |-> SIGCHLD, si_code |-> 0]
    /\ wpacket' = NoPacket
    /\ wpc' = "kill_enter"
    /\ UNCHANGED <<sigdata, pipe, wctx, mainvars, obsvars>>
    /\ SigOnly

\* SIGNAL_PACKET_ADD_PROCESS: start the read on the child's death pipe; it
\* fails at once when the child is already gone.
WorkerAddProcess ==
    /\ ~exited /\ wpc = "add_process"
    /\ LET c == wpacket.proc IN
       IF children[c] = "dead"
       THEN /\ children' = [children EXCEPT ![c] = "handling"]
            /\ wproc' = c
            /\ winfo' = [si_signo |-> SIGCHLD, si_code |-> 0]
            /\ wpc' = "kill_enter"
            /\ wpacket' = wpacket
       ELSE /\ children' = [children EXCEPT ![c] = "watched"]
            /\ wpc' = "wait"
            /\ wpacket' = NoPacket
            /\ UNCHANGED <<wproc, winfo>>
    /\ UNCHANGED <<sigdata, pipe, wctx, mainvars, obsvars>>
    /\ SigOnly

\* EnterCriticalSection(&signal->mutex) in signal_thread_handle_kill and in
\* the SIGNAL_PACKET_DELIVER case.
WorkerEnter ==
    /\ ~exited /\ wpc \in {"kill_enter", "deliver_enter"}
    /\ EnterCriticalSection("worker")
    /\ wpc' = IF wpc = "kill_enter" THEN "kill_cs" ELSE "deliver_cs"
    /\ UNCHANGED <<actions, mask, pending, info, current_siginfo, can_accept_signal,
                   sigevent, process_wait_semaphore, chanvars, wpacket, winfo, wproc,
                   wctx, mainvars, obsvars>>
    /\ SigOnly

\* signal_deliver without signal->can_accept_signal = false.
signal_deliver_StillAccepting(i) ==
    LET h == actions[i.si_signo].sa_handler IN
    /\ wpc' = IF h \in {SIG_IGN, SIG_DFL} THEN "leave" ELSE "d_suspend"
    /\ exited' = (h = SIG_DFL /\ signal_default_handler(i))
    /\ UNCHANGED can_accept_signal

\* signal_deliver up to the decision: ignore, default action, or start to
\* rewrite the main thread's context.
signal_deliver(i) ==
    LET h == actions[i.si_signo].sa_handler IN
    IF h = SIG_IGN
    THEN /\ wpc' = "leave"
         /\ UNCHANGED <<can_accept_signal, exited>>
    ELSE IF h = SIG_DFL
    THEN /\ wpc' = "leave"
         /\ exited' = signal_default_handler(i)
         /\ UNCHANGED can_accept_signal
    ELSE /\ can_accept_signal' = FALSE
         /\ wpc' = "d_suspend"
         /\ UNCHANGED exited

\* The two tests of signal_thread_handle_kill: the request is dropped when
\* the signal is already pending; it is recorded when it cannot be delivered.
\* Last-wins: a request for a pending signal is recorded again.
AlreadyPending_Never(signo) == FALSE
AlreadyPending(signo) == signo \in pending
\* The test without can_accept_signal.
CannotDeliver_MaskOnly(signo) == signo \in mask
CannotDeliver(signo) == signo \in mask \/ ~can_accept_signal

\* The body of signal_thread_handle_kill, under the mutex.
signal_thread_handle_kill ==
    /\ ~exited /\ wpc = "kill_cs"
    /\ LET signo == winfo.si_signo IN
       IF AlreadyPending(signo)
       THEN /\ wpc' = "leave"
            /\ UNCHANGED <<pending, info, can_accept_signal, exited, unlocked_write>>
       ELSE IF CannotDeliver(signo)
       THEN /\ pending' = pending \cup {signo}
            /\ info' = [info EXCEPT ![signo] = winfo]
            /\ wpc' = "leave"
            /\ GuardedWrite("worker")
            /\ UNCHANGED <<can_accept_signal, exited>>
       ELSE /\ signal_deliver(winfo)
            /\ GuardedWrite("worker")
            /\ UNCHANGED <<pending, info>>
    /\ UNCHANGED <<actions, mask, current_siginfo, sigevent, mutex,
                   process_wait_semaphore, chanvars, wpacket, winfo, wproc, wctx,
                   mainvars, invoked>>
    /\ SigOnly

\* The body of the SIGNAL_PACKET_DELIVER case, under the mutex: the first
\* pending, unmasked signal is taken out of the pending set and delivered.
WorkerDeliverPending ==
    /\ ~exited /\ wpc = "deliver_cs"
    /\ IF can_accept_signal /\ pending \ mask # {}
       THEN LET i == Min(pending \ mask) IN
            /\ pending' = pending \ {i}
            /\ winfo' = info[i]
            /\ signal_deliver(info[i])
            /\ GuardedWrite("worker")
       ELSE /\ wpc' = "leave"
            /\ UNCHANGED <<pending, winfo, can_accept_signal, exited, unlocked_write>>
    /\ UNCHANGED <<actions, mask, info, current_siginfo, sigevent, mutex,
                   process_wait_semaphore, chanvars, wpacket, wproc, wctx,
                   mainvars, invoked>>
    /\ SigOnly

\* signal_deliver going on to GetThreadContext without SuspendThread.
DeliverSuspend_None ==
    /\ ~exited /\ wpc = "d_suspend"
    /\ wpc' = "d_getcontext"
    /\ UNCHANGED <<sigdata, chanvars, wpacket, winfo, wproc, wctx, mainvars, obsvars>>
    /\ SigOnly

\* signal_deliver, the context rewriting: SuspendThread.
DeliverSuspend ==
    /\ ~exited /\ wpc = "d_suspend"
    /\ suspended' = TRUE
    /\ wpc' = "d_getcontext"
    /\ UNCHANGED <<sigdata, chanvars, wpacket, winfo, wproc, wctx, mpc, margs, frame,
                   frames, ctx_signal, ret, script, obsvars>>
    /\ SigOnly

\* GetThreadContext and dbt_deliver_signal: the worker's copy of the context
\* now resumes in the signal-setup trampoline.
DeliverGetContext ==
    /\ ~exited /\ wpc = "d_getcontext"
    /\ wctx' = TRUE
    /\ wpc' = "d_siginfo"
    /\ UNCHANGED <<sigdata, chanvars, wpacket, winfo, wproc, mainvars, obsvars>>
    /\ SigOnly

\* signal_deliver that leaves signal->current_siginfo as it is.
DeliverStoreSiginfo_Stale ==
    /\ ~exited /\ wpc = "d_siginfo"
    /\ current_siginfo' = current_siginfo
    /\ wpc' = "d_setevent"
    /\ UNCHANGED <<actions, mask, pending, info, can_accept_signal, sigevent, mutex,
                   process_wait_semaphore, chanvars, wpacket, winfo, wproc, wctx,
                   mainvars, obsvars>>
    /\ SigOnly

\* signal->current_siginfo = *info.
DeliverStoreSiginfo ==
    /\ ~exited /\ wpc = "d_siginfo"
    /\ current_siginfo' = winfo
    /\ wpc' = "d_setevent"
    /\ UNCHANGED <<actions, mask, pending, info, can_accept_signal, sigevent, mutex,
                   process_wait_semaphore, chanvars, wpacket, winfo, wproc, wctx,
                   mainvars, obsvars>>
    /\ SigOnly

\* SetEvent(signal->sigevent).
DeliverSetEvent ==
    /\ ~exited /\ wpc = "d_setevent"
    /\ sigevent' = TRUE
    /\ wpc' = "d_setcontext"
    /\ UNCHANGED <<actions, mask, pending, info, current_siginfo, can_accept_signal,
                   mutex, process_wait_semaphore, chanvars, wpacket, winfo, wproc, wctx,
                   mainvars, obsvars>>
    /\ SigOnly

\* SetThreadContext: the main thread's context becomes the rewritten one.
DeliverSetContext ==
    /\ ~exited /\ wpc = "d_setcontext"
    /\ ctx_signal' = wctx
    /\ wctx' = FALSE
    /\ wpc' = "d_resume"
    /\ UNCHANGED <<sigdata, chanvars, wpacket, winfo, wproc, mpc, margs, frame, frames,
                   suspended, ret, script, obsvars>>
    /\ SigOnly

\* signal_deliver that returns without ResumeThread.
DeliverResume_None ==
    /\ ~exited /\ wpc = "d_resume"
    /\ suspended' = suspended
    /\ wpc' = "leave"
    /\ UNCHANGED <<sigdata, chanvars, wpacket, winfo, wproc, wctx, mpc, margs, frame,
                   frames, ctx_signal, ret, script, obsvars>>
    /\ SigOnly

\* ResumeThread.
DeliverResume ==
    /\ ~exited /\ wpc = "d_resume"
    /\ suspended' = FALSE
    /\ wpc' = "leave"
    /\ UNCHANGED <<sigdata, chanvars, wpacket, winfo, wproc, wctx, mpc, margs, frame,
                   frames, ctx_signal, ret, script, obsvars>>
    /\ SigOnly

\* LeaveCriticalSection, and back to the packet loop, or on to the rest of
\* signal_thread_handle_process_terminated.
WorkerLeave ==
    /\ ~exited /\ wpc = "leave"
    /\ LeaveCriticalSection("worker")
    /\ wpc' = IF wproc # 0 THEN "proc_terminated" ELSE "wait"
    /\ wpacket' = IF wproc # 0 THEN wpacket ELSE NoPacket
    /\ UNCHANGED <<actions, mask, pending, info, current_siginfo, can_accept_signal,
                   sigevent, process_wait_semaphore, chanvars, winfo, wproc, wctx,
                   mainvars, obsvars>>
    /\ SigOnly

\* The semaphore left alone.
ReleaseSemaphore_None(n) == UNCHANGED process_wait_semaphore
\* ReleaseSemaphore(signal->process_wait_semaphore, 1, NULL).
ReleaseSemaphore(n) == process_wait_semaphore' = process_wait_semaphore + n

\* The rest of signal_thread_handle_process_terminated, after the SIGCHLD
\* request: proc->terminated = true and the semaphore.
signal_thread_handle_process_terminated ==
    /\ ~exited /\ wpc = "proc_terminated"
    /\ children' = [children EXCEPT ![wproc] = "terminated"]
    /\ ReleaseSemaphore(1)
    /\ wproc' = 0
    /\ wpacket' = NoPacket
    /\ wpc' = "wait"
    /\ UNCHANGED <<actions, mask, pending, info, current_siginfo, can_accept_signal,
                   sigevent, mutex, pipe, winfo, wctx, mainvars, obsvars>>
    /\ SigOnly

(* --------------------------------------------------- the main thread --- *)
\* Pointer arguments: a null pointer, a pointer the memory manager rejects,
\* or a valid pointer to a value.
Ptr(p, v) == [ptr |-> p, val |-> v]
ActArgs ==
    {Ptr("null", NullAct), Ptr("invalid", NullAct)} \cup {Ptr("valid", a) : a \in ActInputs}
SetArgs ==
    {Ptr("null", {}), Ptr("invalid", {})} \cup {Ptr("valid", s) : s \in SUBSET Sigs}
OutPtrs == {"null", "valid", "invalid"}
KillInfos == [si_signo : Sigs, si_code : {MainCode}]
ExtKillInfos == [si_signo : Sigs, si_code : {ExtCode}]

\* EnterCriticalSection(&signal->mutex) of any syscall and of
\* signal_setup_handler.
MainEnter ==
    /\ ~exited /\ ~suspended /\ mpc = "enter"
    /\ EnterCriticalSection("main")
    /\ mpc' = "cs"
    /\ UNCHANGED <<actions, mask, pending, info, current_siginfo, can_accept_signal,
                   sigevent, process_wait_semaphore, chanvars, workervars, margs, frame,
                   frames, suspended, ctx_signal, ret, script, obsvars>>
    /\ SigOnly

\* The argument checks without the test for SIGKILL and SIGSTOP.
sys_rt_sigaction_check_NoKillStop(signum, act, oldact, sigsetsize) ==
    IF sigsetsize # SigsetSize THEN -EINVAL
    ELSE IF signum < 0 \/ signum >= NSIG THEN -EINVAL
    ELSE IF act.ptr # "null" /\ act.ptr # "valid" THEN -EFAULT
    ELSE IF oldact # "null" /\ oldact # "valid" THEN -EFAULT
    ELSE 0

\* rt_sigaction up to the critical section: the argument checks.
sys_rt_sigaction_check(signum, act, oldact, sigsetsize) ==
    IF sigsetsize # SigsetSize THEN -EINVAL
    ELSE IF signum < 0 \/ signum >= NSIG \/ signum = SIGKILL \/ signum = SIGSTOP THEN -EINVAL
    ELSE IF act.ptr # "null" /\ act.ptr # "valid" THEN -EFAULT
    ELSE IF oldact # "null" /\ oldact # "valid" THEN -EFAULT
    ELSE 0

sys_rt_sigaction ==
    /\ AtGuest
    /\ \E signum \in SigactionNums, act \in ActArgs, oldact \in OutPtrs,
          sigsetsize \in {SigsetSize, 4} :
          LET c == Call("rt_sigaction", <<signum, act, oldact, sigsetsize>>)
              r == sys_rt_sigaction_check(signum, act, oldact, sigsetsize) IN
          /\ ScriptAllows(c)
          /\ script' = Tail(script)
          /\ IF r # 0
             THEN /\ Return("rt_sigaction", signum, r)
                  /\ UNCHANGED <<mpc, margs>>
             ELSE /\ mpc' = "enter"
                  /\ margs' = Call("rt_sigaction", <<signum, act>>)
                  /\ UNCHANGED ret
    /\ UNCHANGED <<sigdata, chanvars, workervars, frame, frames, suspended, ctx_signal,
                   obsvars>>
    /\ SigOnly

\* rt_sigaction, the critical section: the action table entry is replaced.
sys_rt_sigaction_cs ==
    /\ ~exited /\ ~suspended /\ mpc = "cs" /\ margs.call = "rt_sigaction"
    /\ LET signum == margs.args[1]
           act == margs.args[2] IN
       actions' = IF act.ptr = "valid" THEN [actions EXCEPT ![signum] = act.val]
                  ELSE actions
    /\ LeaveCriticalSection("main")
    /\ Return("rt_sigaction", margs.args[1], 0)
    /\ mpc' = "guest"
    /\ margs' = NoArgs
    /\ UNCHANGED <<mask, pending, info, current_siginfo, can_accept_signal, sigevent,
                   process_wait_semaphore, chanvars, workervars, frame, frames, suspended,
                   ctx_signal, script, obsvars>>
    /\ SigOnly

sys_rt_sigprocmask_check(how, set, oldset, sigsetsize) ==
    IF sigsetsize # SigsetSize THEN -EINVAL
    ELSE IF how # SIG_BLOCK /\ how # SIG_UNBLOCK /\ how # SIG_SETMASK THEN -EINVAL
    ELSE IF set.ptr # "null" /\ set.ptr # "valid" THEN -EFAULT
    ELSE IF oldset # "null" /\ oldset # "valid" THEN -EFAULT
    ELSE 0

sys_rt_sigprocmask ==
    /\ AtGuest
    /\ \E how \in {SIG_BLOCK, SIG_UNBLOCK, SIG_SETMASK, 3}, set \in SetArgs,
          oldset \in OutPtrs, sigsetsize \in {SigsetSize, 4} :
          LET c == Call("rt_sigprocmask", <<how, set, oldset, sigsetsize>>)
              r == sys_rt_sigprocmask_check(how, set, oldset, sigsetsize) IN
          /\ ScriptAllows(c)
          /\ script' = Tail(script)
          /\ IF r # 0
             THEN /\ Return("rt_sigprocmask", how, r)
                  /\ UNCHANGED <<mpc, margs>>
             ELSE /\ mpc' = "enter"
                  /\ margs' = Call("rt_sigprocmask", <<how, set>>)
                  /\ UNCHANGED ret
    /\ UNCHANGED <<sigdata, chanvars, workervars, frame, frames, suspended, ctx_signal,
                   obsvars>>
    /\ SigOnly

\* The mask rt_sigprocmask assigns.
NewMask(how, set, old) ==
    IF set.ptr # "valid" THEN old
    ELSE IF how = SIG_BLOCK THEN old \cup set.val
    ELSE IF how = SIG_UNBLOCK THEN old \ set.val
    ELSE set.val

\* rt_sigprocmask, the critical section.
sys_rt_sigprocmask_cs ==
    /\ ~exited /\ ~suspended /\ mpc = "cs" /\ margs.call = "rt_sigprocmask"
    /\ LET m == NewMask(margs.args[1], margs.args[2], mask) IN
       /\ mask' = m
       /\ send_pending_signal(m)
    /\ GuardedWrite("main")
    /\ LeaveCriticalSection("main")
    /\ Return("rt_sigprocmask", margs.args[1], 0)
    /\ mpc' = "guest"
    /\ margs' = NoArgs
    /\ UNCHANGED <<actions, pending, info, current_siginfo, can_accept_signal, sigevent,
                   process_wait_semaphore, children, workervars, frame, frames,
                   suspended, ctx_signal, script, invoked, exited>>
    /\ SigOnly

\* signal_kill without the test of pid.
signal_kill_AnyPid(pid, i) ==
    /\ send_packet(KillPacket(i))
    /\ Return("signal_kill", <<pid, i>>, 0)

\* signal_kill(pid, info), as called on the main thread.
signal_kill(pid, i) ==
    IF pid = SelfPid
    THEN /\ send_packet(KillPacket(i))
         /\ Return("signal_kill", <<pid, i>>, 0)
    ELSE /\ UNCHANGED pipe
         /\ Return("signal_kill", <<pid, i>>, -ESRCH)

MainKill ==
    /\ AtGuest
    /\ \E pid \in {SelfPid, OtherPid}, i \in KillInfos :
          /\ ScriptAllows(Call("signal_kill", <<pid, i>>))
          /\ script' = Tail(script)
          /\ signal_kill(pid, i)
    /\ UNCHANGED <<sigdata, children, workervars, mpc, margs, frame, frames,
                   suspended, ctx_signal, obsvars>>
    /\ SigOnly

\* signal_kill for this process called by another host thread.
ExternalKill ==
    /\ ~exited /\ mpc # "done"
    /\ ScriptAllows(Call("external_kill", <<>>))
    /\ script' = Tail(script)
    /\ \E i \in ExtKillInfos : send_packet(KillPacket(i))
    /\ UNCHANGED <<sigdata, children, workervars, mpc, margs, frame, frames, suspended,
                   ctx_signal, ret, obsvars>>
    /\ SigOnly

\* The kill syscall: a stub that sends nothing.
sys_kill ==
    /\ AtGuest
    /\ ScriptAllows(Call("kill", <<>>))
    /\ script' = Tail(script)
    /\ Return("kill", 0, 0)
    /\ UNCHANGED <<sigdata, chanvars, workervars, mpc, margs, frame, frames, suspended,
                   ctx_signal, obsvars>>
    /\ SigOnly

\* signal_add_process(proc): the death pipe is created and the worker told.
signal_add_process ==
    /\ AtGuest
    /\ \E c \in Children :
          /\ children[c] = "none"
          /\ ScriptAllows(Call("signal_add_process", <<c>>))
          /\ script' = Tail(script)
          /\ children' = [children EXCEPT ![c] = "unwatched"]
          /\ send_packet(AddProcessPacket(c))
    /\ UNCHANGED <<sigdata, workervars, mpc, margs, frame, frames, suspended,
                   ctx_signal, ret, obsvars>>
    /\ SigOnly

\* A child terminates: the write end of its death pipe closes.  A read already
\* started on the pipe completes; one started later fails at once.
ChildExit ==
    /\ ~exited
    /\ \E c \in Children :
          /\ children[c] \in {"unwatched", "watched"}
          /\ children' = [children EXCEPT
                ![c] = IF children[c] = "watched" THEN "completed" ELSE "dead"]
    /\ UNCHANGED <<sigdata, pipe, workervars, mainvars, obsvars>>
    /\ SigOnly

\* signal_shutdown: the SHUTDOWN packet is sent.
signal_shutdown ==
    /\ AtGuest
    /\ ScriptAllows(Call("signal_shutdown", <<>>))
    /\ script' = Tail(script)
    /\ send_packet(ShutdownPacket)
    /\ mpc' = "shutdown_wait"
    /\ UNCHANGED <<sigdata, children, workervars, margs, frame, frames,
                   suspended, ctx_signal, ret, obsvars>>
    /\ SigOnly

\* signal_shutdown: WaitForSingleObject(signal->thread) has returned; the
\* mutex and the pipe handles are destroyed.
signal_shutdown_wait ==
    /\ ~exited /\ ~suspended /\ mpc = "shutdown_wait"
    /\ wpc = "exited"
    /\ mpc' = "done"
    /\ UNCHANGED <<sigdata, chanvars, workervars, margs, frame, frames, suspended,
                   ctx_signal, ret, script, obsvars>>
    /\ SigOnly

\* rt_sigsuspend up to its first critical section.
sys_rt_sigsuspend ==
    /\ AtGuest
    /\ \E m \in SetArgs :
          LET c == Call("rt_sigsuspend", <<m>>) IN
          /\ ScriptAllows(c)
          /\ script' = Tail(script)
          /\ IF m.ptr # "valid"
             THEN /\ Return("rt_sigsuspend", 0, -EFAULT)
                  /\ UNCHANGED <<mpc, margs>>
             ELSE /\ mpc' = "enter"
                  /\ margs' = c
                  /\ UNCHANGED ret
    /\ UNCHANGED <<sigdata, chanvars, workervars, frame, frames, suspended, ctx_signal,
                   obsvars>>
    /\ SigOnly

\* rt_sigsuspend, first critical section: the mask is saved and replaced.
sys_rt_sigsuspend_cs ==
    /\ ~exited /\ ~suspended /\ mpc = "cs" /\ margs.call = "rt_sigsuspend"
    /\ mask' = margs.args[1].val
    /\ margs' = Call("rt_sigsuspend_wait", <<mask>>)
    /\ GuardedWrite("main")
    /\ LeaveCriticalSection("main")
    /\ mpc' = "suspend_wait"
    /\ UNCHANGED <<actions, pending, info, current_siginfo, can_accept_signal, sigevent,
                   process_wait_semaphore, chanvars, workervars, frame, frames, suspended,
                   ctx_signal, ret, script, invoked, exited>>
    /\ SigOnly

\* signal_wait(0, NULL, INFINITE): returns once the signal-ready event is set.
signal_wait ==
    /\ ~exited /\ ~suspended /\ mpc = "suspend_wait"
    /\ sigevent
    /\ mpc' = "enter"
    /\ margs' = Call("rt_sigsuspend_restore", margs.args)
    /\ UNCHANGED <<sigdata, chanvars, workervars, frame, frames, suspended, ctx_signal,
                   ret, script, obsvars>>
    /\ SigOnly

\* rt_sigsuspend, second critical section: the saved mask is put back.
sys_rt_sigsuspend_restore ==
    /\ ~exited /\ ~suspended /\ mpc = "cs" /\ margs.call = "rt_sigsuspend_restore"
    /\ mask' = margs.args[1]
    /\ GuardedWrite("main")
    /\ LeaveCriticalSection("main")
    /\ Return("rt_sigsuspend", 0, -EINTR)
    /\ mpc' = "guest"
    /\ margs' = NoArgs
    /\ UNCHANGED <<actions, pending, info, current_siginfo, can_accept_signal, sigevent,
                   process_wait_semaphore, chanvars, workervars, frame, frames, suspended,
                   ctx_signal, script, invoked, exited>>
    /\ SigOnly

\* signal_setup_handler up to its critical section: the main thread resumes in
\* the trampoline and starts the frame from current_siginfo and the restorer.
signal_setup_handler_begin ==
    /\ ~exited /\ ~suspended /\ mpc = "guest" /\ ctx_signal
    /\ ctx_signal' = FALSE
    /\ LET sig == current_siginfo.si_signo IN
       frame' = [pretcode |-> IF actions[sig].sa_restorer = 0 THEN signal_restorer
                              ELSE actions[sig].sa_restorer,
                 sig |-> sig,
                 info |-> current_siginfo,
                 uc_sigmask |-> {},
                 ip |-> 0]
    /\ mpc' = "enter"
    /\ margs' = Call("setup", <<>>)
    /\ UNCHANGED <<sigdata, chanvars, workervars, frames, suspended, ret, script, obsvars>>
    /\ SigOnly

\* The mask without the delivered signal itself.
HandlerMask_NoSelf(m, sig) == m \cup actions[sig].sa_mask
\* The mask while the handler runs: sigaddset(&signal->mask, frame->sig) and
\* signal->mask |= signal->actions[sig].sa_mask.
HandlerMask(m, sig) == (m \cup {sig}) \cup actions[sig].sa_mask

\* signal_setup_handler, the critical section and the redirection of control
\* to the handler.
signal_setup_handler ==
    /\ ~exited /\ ~suspended /\ mpc = "cs" /\ margs.call = "setup"
    /\ LET sig == frame.sig
           ip == actions[sig].sa_handler IN
       /\ frames' = <<[frame EXCEPT !.uc_sigmask = mask, !.ip = ip]>> \o frames
       /\ mask' = HandlerMask(mask, sig)
       /\ invoked' = IF ip \in {SIG_DFL, SIG_IGN} THEN invoked
                     ELSE [invoked EXCEPT ![sig] = @ + 1]
    /\ can_accept_signal' = TRUE
    /\ sigevent' = FALSE
    /\ GuardedWrite("main")
    /\ LeaveCriticalSection("main")
    /\ frame' = NoFrame
    /\ mpc' = "guest"
    /\ margs' = NoArgs
    /\ UNCHANGED <<actions, pending, info, current_siginfo, process_wait_semaphore,
                   chanvars, workervars, suspended, ctx_signal, ret, script, exited>>
    /\ SigOnly

\* rt_sigreturn up to its critical section: the frame pointer is validated.
sys_rt_sigreturn ==
    /\ AtGuest
    /\ \E readable \in BOOLEAN :
          IF readable
          THEN /\ frames # <<>>
               /\ mpc' = "enter"
               /\ margs' = Call("rt_sigreturn", <<>>)
               /\ UNCHANGED <<ret, script>>
          ELSE /\ ScriptAllows(Call("rt_sigreturn", <<FALSE>>))
               /\ script' = Tail(script)
               /\ Return("rt_sigreturn", 0, -EFAULT)
               /\ UNCHANGED <<mpc, margs>>
    /\ UNCHANGED <<sigdata, chanvars, workervars, frame, frames, suspended, ctx_signal,
                   obsvars>>
    /\ SigOnly

\* The mask rt_sigreturn assigns: frame->uc.uc_sigmask.
RestoredMask_Keep(f) == mask
RestoredMask(f) == f.uc_sigmask

\* rt_sigreturn, the critical section, and dbt_sigreturn: the guest resumes
\* from the frame's mcontext.
sys_rt_sigreturn_cs ==
    /\ ~exited /\ ~suspended /\ mpc = "cs" /\ margs.call = "rt_sigreturn"
    /\ LET m == RestoredMask(Head(frames)) IN
       /\ mask' = m
       /\ send_pending_signal(m)
    /\ GuardedWrite("main")
    /\ LeaveCriticalSection("main")
    /\ frames' = Tail(frames)
    /\ Return("rt_sigreturn", 0, 0)
    /\ mpc' = "guest"
    /\ margs' = NoArgs
    /\ UNCHANGED <<actions, pending, info, current_siginfo, can_accept_signal, sigevent,
                   process_wait_semaphore, children, workervars, frame,
                   suspended, ctx_signal, script, invoked, exited>>
    /\ SigOnly


(* ------------------------------------------- the descriptor table --- *)
NULL == 0
Fds == 0 .. MAX_FD_COUNT - 1
Files == 1 .. MaxFiles
\* The two file objects of console_alloc.
console_in == 1
console_out == 2
\* S_IWGRP | S_IWOTH
DefaultUmask == 18

\* The descriptor table and the file objects as one value, so that the calls
\* made within one syscall compose.
VfsState == [fds |-> fds, cloexec |-> fds_cloexec, ref |-> ref, closes |-> closes]
SetVfs(st) ==
    /\ fds' = st.fds
    /\ fds_cloexec' = st.cloexec
    /\ ref' = st.ref
    /\ closes' = st.closes
Outcome(st, r) == [st |-> st, r |-> r]
\* One more call into the file layer,
VfsStep == vcalls < vlimit /\ vcalls' = vcalls + 1 /\ vlimit' = vlimit
\* and one that uses the descriptor table, which is mapped from vfs_init to
\* vfs_shutdown.
VfsCall == VfsStep /\ vfs_mapped /\ vfs_mapped' = vfs_mapped

\* The observer's record of a call; it keeps none when it only counts.
Untraced == [call |-> "untraced", args |-> <<>>, r |-> 0]
NoVfsCall == [call |-> "none", args |-> <<>>, r |-> 0]
Traced(call, args, r) ==
    vlast' = IF vlast = Untraced THEN vlast
             ELSE [call |-> call, args |-> args, r |-> r]

vfs_get(st, fd) == IF fd < 0 \/ fd >= MAX_FD_COUNT THEN NULL ELSE st.fds[fd]

vfs_ref(st, f) == [st EXCEPT !.ref[f] = @ + 1]

\* vfs_release that calls the close operation at every release.
vfs_release_CloseAlways(st, f) ==
    [st EXCEPT !.ref[f] = @ - 1, !.closes[f] = @ + 1]

\* f->op_vtable->close(f) is counted in closes.
vfs_release(st, f) ==
    [st EXCEPT !.ref[f] = @ - 1,
               !.closes[f] = IF st.ref[f] - 1 = 0 THEN @ + 1 ELSE @]

\* vfs_close that forgets the reference of the slot.
vfs_close_NoRelease(st, fd) == [st EXCEPT !.fds[fd] = NULL, !.cloexec[fd] = 0]

vfs_close(st, fd) ==
    [vfs_release(st, st.fds[fd]) EXCEPT !.fds[fd] = NULL, !.cloexec[fd] = 0]

\* The empty slots; the loops over the table take the lowest.
FreeSlots(st) == {i \in Fds : st.fds[i] = NULL}

\* vfs_store_file that leaves the slot's flag as it was.
vfs_store_file_KeepFlag(st, f, cloexec) ==
    IF FreeSlots(st) = {}
    THEN Outcome(st, -EMFILE)
    ELSE Outcome([st EXCEPT !.fds[Min(FreeSlots(st))] = f], Min(FreeSlots(st)))

vfs_store_file(st, f, cloexec) ==
    IF FreeSlots(st) = {}
    THEN Outcome(st, -EMFILE)
    ELSE LET i == Min(FreeSlots(st)) IN
         Outcome([st EXCEPT !.fds[i] = f, !.cloexec[i] = cloexec], i)

\* vfs_dup that overwrites the slot newfd without closing it.
vfs_dup_NoClose(st, fd, newfd, flags) ==
    LET f == vfs_get(st, fd) IN
    IF f = NULL THEN Outcome(st, -EBADF)
    ELSE IF newfd = -1
    THEN IF FreeSlots(st) = {}
         THEN Outcome(st, -EMFILE)
         ELSE Outcome([st EXCEPT !.fds[Min(FreeSlots(st))] = f,
                                 !.cloexec[Min(FreeSlots(st))] = flags,
                                 !.ref[f] = @ + 1], Min(FreeSlots(st)))
    ELSE IF newfd = fd \/ newfd < 0 \/ newfd >= MAX_FD_COUNT
    THEN Outcome(st, -EINVAL)
    ELSE Outcome([st EXCEPT !.fds[newfd] = f, !.cloexec[newfd] = flags,
                            !.ref[f] = @ + 1], newfd)

\* flags is the O_CLOEXEC bit of the flags argument.
vfs_dup(st, fd, newfd, flags) ==
    LET f == vfs_get(st, fd) IN
    IF f = NULL THEN Outcome(st, -EBADF)
    ELSE IF newfd = -1
    THEN IF FreeSlots(st) = {}
         THEN Outcome(st, -EMFILE)
         ELSE LET i == Min(FreeSlots(st)) IN
              Outcome([st EXCEPT !.fds[i] = f, !.cloexec[i] = flags,
                                 !.ref[f] = @ + 1], i)
    ELSE IF newfd = fd \/ newfd < 0 \/ newfd >= MAX_FD_COUNT
    THEN Outcome(st, -EINVAL)
    ELSE LET st1 == IF st.fds[newfd] # NULL THEN vfs_close(st, newfd) ELSE st IN
         Outcome([st1 EXCEPT !.fds[newfd] = f, !.cloexec[newfd] = flags,
                             !.ref[f] = @ + 1], newfd)

\* The loop of vfs_reset from slot i on.
RECURSIVE ResetFrom(_, _)
ResetFrom(st, i) ==
    IF i >= MAX_FD_COUNT THEN st
    ELSE IF st.fds[i] # NULL /\ st.cloexec[i] # 0
    THEN ResetFrom(vfs_close(st, i), i + 1)
    ELSE ResetFrom(st, i + 1)

\* The loop of vfs_shutdown from slot i on.
RECURSIVE ShutdownFrom(_, _)
ShutdownFrom(st, i) ==
    IF i >= MAX_FD_COUNT THEN st
    ELSE IF st.fds[i] # NULL
    THEN ShutdownFrom(vfs_close(st, i), i + 1)
    ELSE ShutdownFrom(st, i + 1)

\* The file objects never allocated so far; an allocator takes the lowest.
Unused(st) ==
    {f \in Files \ {console_in, console_out} :
        st.ref[f] = 0 /\ st.closes[f] = 0}
\* A file object as its allocator (the file system's open, pipe_alloc)
\* returns it: with one reference, owned by the caller.
file_alloc(st, f) == [st EXCEPT !.ref[f] = 1]
\* What the allocation of n file objects can give: an error, or the objects.
AllocResults(st, n) ==
    IF Cardinality(Unused(st)) >= n THEN {0, -ENOENT} ELSE {-ENOENT}
Sum(fn) == LET RECURSIVE S(_)
               S(D) == IF D = {} THEN 0
                       ELSE LET x == CHOOSE x \in D : TRUE IN fn[x] + S(D \ {x})
           IN S(DOMAIN fn)

\* No select is in progress, and no syscall has taken a descriptor yet.
NoSelect ==
    [pc |-> "idle", nfds |-> 0, readfds |-> [ptr |-> FALSE, bits |-> {}],
     writefds |-> [ptr |-> FALSE, bits |-> {}], exceptfds |-> [ptr |-> FALSE, bits |-> {}],
     timeout |-> FALSE, files |-> <<>>, fds |-> <<>>, cnt |-> 0, waited |-> {},
     num_result |-> 0, ret |-> 0,
     in |-> [readfds |-> {}, writefds |-> {}, exceptfds |-> {}]]
NoFdCall == [call |-> "none", fd |-> 0, read |-> {}, written |-> {}, ret |-> 0]

\* vfs_init: console_in in slot 0, console_out in slots 1 and 2.
ConsoleTable ==
    [fds |-> [i \in Fds |-> IF i = 0 THEN console_in
                            ELSE IF i \in {1, 2} THEN console_out ELSE NULL],
     cloexec |-> [i \in Fds |-> 0],
     ref |-> [f \in Files |-> IF f = console_in THEN 1
                              ELSE IF f = console_out THEN 2 ELSE 0],
     closes |-> [f \in Files |-> 0]]

\* The file layer with the table and the file objects of st.
VfsStart(st) ==
    /\ fds = st.fds
    /\ fds_cloexec = st.cloexec
    /\ ref = st.ref
    /\ closes = st.closes
    /\ umask = DefaultUmask
    /\ borrows = [f \in Files |-> 0]
    /\ vcalls = 0
    /\ vfs_mapped = TRUE
    /\ sel = NoSelect
    /\ fdcall = NoFdCall

\* No path is being resolved; the current directory is the root.
\* ptrs: the memory manager finds every pointer given to the syscall valid.
\* ref: the references on the file vfs_open(oldpath) gave to link or rename.
NoOpen ==
    [pc |-> "idle", op |-> "open", path |-> <<>>, level |-> 0, trace |-> <<>>, ret |-> 0,
     ptrs |-> TRUE, ref |-> 0]
\* The operations of struct file_system, and the two file systems vfs_init
\* mounts: winfs at "/" with all of them, devfs at "/dev" with open only.
FsOps == {"open", "link", "unlink", "symlink", "readlink", "mkdir", "rmdir", "rename"}
winfs_alloc == [name |-> "winfs", mountpoint |-> <<"/">>, ops |-> FsOps]
devfs_alloc == [name |-> "devfs", mountpoint |-> <<"/", "dev">>, ops |-> {"open"}]
\* The file system put at the end of the list.
vfs_add_Append(fs, list) == list \o <<fs>>
\* fs->next = vfs->fs_first; vfs->fs_first = fs
vfs_add(fs, list) == <<fs>> \o list
NoLookup ==
    [added |-> <<>>, path |-> <<>>, found |-> FALSE, fs |-> winfs_alloc, subpath |-> <<>>]
NoDent == [pc |-> "idle", call |-> "none", len |-> 0, layout |-> <<0, 0, 0>>, d_reclen |-> 0]
PathIdle ==
    /\ cwd = <<"/">> /\ path_in = <<>> /\ outs = <<>> /\ vopen = NoOpen
    /\ dent = NoDent /\ lookup = NoLookup
    /\ mounts = vfs_add(devfs_alloc, vfs_add(winfs_alloc, <<>>))

vfs_init == VfsStart(ConsoleTable) /\ PathIdle

\* The file layer after vfs_init, its calls counted.
VfsInit == vfs_init /\ vlimit = MaxVfsCalls /\ vlast = Untraced

\* The open syscall; the path resolution of vfs_open is abstracted to its
\* result r, an error or 0 with a new file object.
sys_open(st, pathname, cloexec, r) ==
    IF pathname # "valid" THEN Outcome(st, -EFAULT)
    ELSE IF r < 0 THEN Outcome(st, r)
    ELSE LET f == Min(Unused(st))
             s == vfs_store_file(file_alloc(st, f), f, cloexec) IN
         IF s.r < 0 THEN Outcome(vfs_release(s.st, f), s.r) ELSE s

\* The close syscall, for the descriptors of the table.
sys_close(st, fd) ==
    IF st.fds[fd] = NULL THEN Outcome(st, -EBADF)
    ELSE Outcome(vfs_close(st, fd), 0)

sys_dup(st, fd) == vfs_dup(st, fd, -1, 0)
sys_dup2(st, fd, newfd) == vfs_dup(st, fd, newfd, 0)
sys_dup3(st, fd, newfd, flags) == vfs_dup(st, fd, newfd, flags)

\* The pipe2 syscall; r is the result of pipe_alloc, an error or 0 with the
\* two ends of a new pipe.
sys_pipe2(st, pipefd, flags, r) ==
    IF flags = "O_DIRECT" \/ flags = "O_NONBLOCK" THEN Outcome(st, -EINVAL)
    ELSE IF pipefd # "valid" THEN Outcome(st, -EFAULT)
    ELSE IF r < 0 THEN Outcome(st, r)
    ELSE LET cloexec == IF flags = "O_CLOEXEC" THEN 1 ELSE 0
             fread == Min(Unused(st))
             fwrite == Min(Unused(st) \ {fread})
             st0 == file_alloc(file_alloc(st, fread), fwrite)
             rfd == vfs_store_file(st0, fread, cloexec) IN
         IF rfd.r < 0
         THEN Outcome(vfs_release(vfs_release(rfd.st, fread), fwrite), rfd.r)
         ELSE LET wfd == vfs_store_file(rfd.st, fwrite, cloexec) IN
              IF wfd.r < 0
              THEN Outcome(vfs_release(vfs_close(wfd.st, rfd.r), fwrite), wfd.r)
              ELSE Outcome(wfd.st, 0)

\* vfs_reset that closes every occupied slot.
vfs_reset_All(st) == ShutdownFrom(st, 0)

\* The descriptor table after vfs_reset.
vfs_reset(st) == ResetFrom(st, 0)

\* The file objects after vfs_shutdown.
vfs_shutdown(st) == ShutdownFrom(st, 0)

\* fcntl whose F_SETFD sets the flag of every slot that holds fd's file.
sys_fcntl_PerFile(st, fd, cmd, arg) ==
    IF st.fds[fd] = NULL THEN Outcome(st, -EBADF)
    ELSE CASE cmd = F_DUPFD -> vfs_dup(st, fd, -1, 0)
           [] cmd = F_GETFD -> Outcome(st, IF st.cloexec[fd] # 0 THEN FD_CLOEXEC ELSE 0)
           [] cmd = F_SETFD ->
                Outcome([st EXCEPT !.cloexec =
                            [i \in Fds |-> IF st.fds[i] = st.fds[fd]
                                           THEN (IF arg = FD_CLOEXEC THEN 1 ELSE 0)
                                           ELSE st.cloexec[i]]], 0)
           [] cmd = F_GETFL -> Outcome(st, 0)
           [] OTHER -> Outcome(st, -EINVAL)

\* The fcntl syscall, for the descriptors of the table; F_GETFL returns the
\* file's open flags, which the model does not keep (0).
sys_fcntl(st, fd, cmd, arg) ==
    IF st.fds[fd] = NULL THEN Outcome(st, -EBADF)
    ELSE CASE cmd = F_DUPFD -> sys_dup(st, fd)
           [] cmd = F_GETFD -> Outcome(st, IF st.cloexec[fd] # 0 THEN FD_CLOEXEC ELSE 0)
           [] cmd = F_SETFD ->
                Outcome([st EXCEPT !.cloexec[fd] = IF arg = FD_CLOEXEC THEN 1 ELSE 0], 0)
           [] cmd = F_GETFL -> Outcome(st, 0)
           [] OTHER -> Outcome(st, -EINVAL)

\* The table after close on each descriptor of D.
RECURSIVE CloseEach(_, _)
CloseEach(st, D) ==
    IF D = {} THEN st
    ELSE CloseEach(sys_close(st, Min(D)).st, D \ {Min(D)})

\* The calls, with their arguments.
PtrArgs == {"valid", "invalid"}
FdArgs == -1 .. MAX_FD_COUNT
Pipe2Flags == {"none", "O_CLOEXEC", "O_NONBLOCK"}
FcntlCmds == {F_DUPFD, F_GETFD, F_SETFD, F_GETFL, F_SETFL}

Open ==
    /\ VfsCall
    /\ \E pathname \in PtrArgs, cloexec \in {0, 1}, r \in AllocResults(VfsState, 1) :
          LET o == sys_open(VfsState, pathname, cloexec, r) IN
          SetVfs(o.st) /\ Traced("open", <<pathname, cloexec>>, o.r)
    /\ UNCHANGED <<umask, borrows>>
    /\ VfsOnly

Close ==
    /\ VfsCall
    /\ \E fd \in Fds :
          LET o == sys_close(VfsState, fd) IN
          SetVfs(o.st) /\ Traced("close", <<fd>>, o.r)
    /\ UNCHANGED <<umask, borrows>>
    /\ VfsOnly

Dup ==
    /\ VfsCall
    /\ \E fd \in FdArgs :
          LET o == sys_dup(VfsState, fd) IN
          SetVfs(o.st) /\ Traced("dup", <<fd>>, o.r)
    /\ UNCHANGED <<umask, borrows>>
    /\ VfsOnly

Dup2 ==
    /\ VfsCall
    /\ \E fd \in FdArgs, newfd \in FdArgs :
          LET o == sys_dup2(VfsState, fd, newfd) IN
          SetVfs(o.st) /\ Traced("dup2", <<fd, newfd>>, o.r)
    /\ UNCHANGED <<umask, borrows>>
    /\ VfsOnly

Dup3 ==
    /\ VfsCall
    /\ \E fd \in FdArgs, newfd \in FdArgs, flags \in {0, 1} :
          LET o == sys_dup3(VfsState, fd, newfd, flags) IN
          SetVfs(o.st) /\ Traced("dup3", <<fd, newfd, flags>>, o.r)
    /\ UNCHANGED <<umask, borrows>>
    /\ VfsOnly

Pipe2 ==
    /\ VfsCall
    /\ \E pipefd \in PtrArgs, flags \in Pipe2Flags, r \in AllocResults(VfsState, 2) :
          LET o == sys_pipe2(VfsState, pipefd, flags, r) IN
          SetVfs(o.st) /\ Traced("pipe2", <<pipefd, flags>>, o.r)
    /\ UNCHANGED <<umask, borrows>>
    /\ VfsOnly

Fcntl ==
    /\ VfsCall
    /\ \E fd \in Fds, cmd \in FcntlCmds, arg \in {0, FD_CLOEXEC} :
          LET o == sys_fcntl(VfsState, fd, cmd, arg) IN
          SetVfs(o.st) /\ Traced("fcntl", <<fd, cmd, arg>>, o.r)
    /\ UNCHANGED <<umask, borrows>>
    /\ VfsOnly

VfsReset ==
    /\ VfsCall
    /\ SetVfs(vfs_reset(VfsState))
    /\ Traced("vfs_reset", <<>>, 0)
    /\ umask' = DefaultUmask
    /\ UNCHANGED borrows
    /\ VfsOnly

\* Kernel code outside the syscalls of the table: it obtains a file object
\* from vfs_open and keeps the reference,
KernelOpen ==
    /\ VfsCall
    /\ Sum(borrows) < MaxBorrows
    /\ Unused(VfsState) # {}
    /\ LET f == Min(Unused(VfsState)) IN
       /\ SetVfs(file_alloc(VfsState, f))
       /\ borrows' = [borrows EXCEPT ![f] = @ + 1]
       /\ Traced("vfs_open", <<f>>, 0)
    /\ UNCHANGED umask
    /\ VfsOnly

\* takes a reference to a file object it has a handle to,
KernelRef ==
    /\ VfsCall
    /\ Sum(borrows) < MaxBorrows
    /\ \E f \in Files :
          /\ ref[f] > 0
          /\ SetVfs(vfs_ref(VfsState, f))
          /\ borrows' = [borrows EXCEPT ![f] = @ + 1]
          /\ Traced("vfs_ref", <<f>>, 0)
    /\ UNCHANGED umask
    /\ VfsOnly

\* gives a reference back (the file object outlives the table),
KernelRelease ==
    /\ VfsStep
    /\ UNCHANGED vfs_mapped
    /\ \E f \in Files :
          /\ borrows[f] > 0
          /\ SetVfs(vfs_release(VfsState, f))
          /\ borrows' = [borrows EXCEPT ![f] = @ - 1]
          /\ Traced("vfs_release", <<f>>, 0)
    /\ UNCHANGED umask
    /\ VfsOnly

\* or hands a reference over to the descriptor table.
KernelStoreFile ==
    /\ VfsCall
    /\ \E f \in Files, cloexec \in {0, 1} :
          /\ borrows[f] > 0
          /\ LET s == vfs_store_file(VfsState, f, cloexec) IN
             /\ SetVfs(s.st)
             /\ borrows' = [borrows EXCEPT ![f] = IF s.r < 0 THEN @ ELSE @ - 1]
             /\ Traced("vfs_store_file", <<f, cloexec>>, s.r)
    /\ UNCHANGED umask
    /\ VfsOnly

\* The umask syscall: it returns the old mask.
Umask ==
    /\ VfsCall
    /\ \E m \in {0, DefaultUmask} :
          umask' = m /\ Traced("umask", <<m>>, umask)
    /\ UNCHANGED <<fds, fds_cloexec, ref, closes, borrows>>
    /\ VfsOnly

\* The process ends: every descriptor is closed and the table is unmapped.
VfsShutdown ==
    /\ VfsStep
    /\ vfs_mapped
    /\ SetVfs(vfs_shutdown(VfsState))
    /\ Traced("vfs_shutdown", <<>>, 0)
    /\ vfs_mapped' = FALSE
    /\ UNCHANGED <<umask, borrows>>
    /\ VfsOnly

(* ------------------------------------------------ path normalisation --- *)
\* A path is a sequence of characters; a C string ends with Nul, and a cell
\* of a buffer that nothing has written is Uninit.
PathChars == {"/", ".", "a"}
Nul == "NUL"
Uninit == "?"
Paths(n) == UNION {[1 .. k -> PathChars] : k \in 0 .. n}
Root == <<"/">>
\* s[i - 1] of the C string s.
At(s, i) == IF i <= Len(s) THEN s[i] ELSE Nul

\* normalize_path's out and p (as p - out); under: it wrote below out.
OutBuf(n) == [buf |-> [k \in 1 .. n |-> Uninit], p |-> 0, under |-> FALSE]
\* *p++ = c
Put(s, c) ==
    [buf |-> IF s.p >= 0 /\ s.p < Len(s.buf) THEN [s.buf EXCEPT ![s.p + 1] = c]
             ELSE s.buf,
     p |-> s.p + 1,
     under |-> s.under \/ s.p < 0]
\* while (*str) *p++ = *str++, from str[i - 1] up to a character of stop
RECURSIVE PutWhile(_, _, _, _)
PutWhile(s, str, i, stop) ==
    IF At(str, i) \in stop THEN s ELSE PutWhile(Put(s, At(str, i)), str, i + 1, stop)
RECURSIVE SkipWhile(_, _, _)
SkipWhile(str, i, stop) == IF At(str, i) \in stop THEN i ELSE SkipWhile(str, i + 1, stop)
\* while (p > out && p[-1] != '/') p--
RECURSIVE PopTo(_, _)
PopTo(buf, p) == IF p > 0 /\ buf[p] # "/" THEN PopTo(buf, p - 1) ELSE p

\* The loop of normalize_path over pathname, at pathname[i - 1].
RECURSIVE NormalizeLoop(_, _, _)
NormalizeLoop(s, str, i) ==
    LET c0 == At(str, i)
        c1 == At(str, i + 1)
        c2 == At(str, i + 2) IN
    IF c0 = Nul THEN s
    ELSE IF c0 = "/" THEN NormalizeLoop(s, str, i + 1)
    ELSE IF c0 = "." /\ c1 = "/" THEN NormalizeLoop(s, str, i + 2)
    ELSE IF c0 = "." /\ c1 = Nul THEN NormalizeLoop(Put(s, "."), str, i + 1)
    ELSE IF c0 = "." /\ c1 = "." /\ c2 \in {"/", Nul}
    THEN NormalizeLoop([s EXCEPT !.p = PopTo(s.buf, s.p - 1)], str,
                       IF c2 = Nul THEN i + 2 ELSE i + 3)
    ELSE LET j == SkipWhile(str, i, {Nul, "/"})
             s1 == PutWhile(s, str, i, {Nul, "/"}) IN
         IF At(str, j) = "/" THEN NormalizeLoop(Put(s1, "/"), str, j + 1)
         ELSE NormalizeLoop(s1, str, j)

\* normalize_path(current, pathname, out): out and p when it returns.
normalize_path(current, path) ==
    LET s0 == OutBuf(Len(current) + Len(path) + 2)
        s1 == IF At(path, 1) = "/" THEN Put(s0, "/")
              ELSE LET c == PutWhile(s0, current, 1, {Nul}) IN
                   IF c.buf[c.p] # "/" THEN Put(c, "/") ELSE c
        s2 == NormalizeLoop(s1, path, IF At(path, 1) = "/" THEN 2 ELSE 1) IN
    IF s2.p - 1 > 0 /\ s2.buf[s2.p] = "/"
    THEN [s2 EXCEPT !.buf[s2.p] = Nul]
    ELSE [Put(s2, Nul) EXCEPT !.p = s2.p]

\* The C string at buf[k - 1], up to Nul or to a cell never written.
RECURSIVE CString(_, _)
CString(buf, k) ==
    IF k > Len(buf) \/ buf[k] \in {Nul, Uninit} THEN <<>>
    ELSE <<buf[k]>> \o CString(buf, k + 1)
\* The strings a caller can read from out: the one written, or, when the
\* terminator went elsewhere, what was written followed by what the buffer held.
PathOutputs(s) ==
    LET str == CString(s.buf, 1) IN
    IF Len(str) < Len(s.buf) /\ s.buf[Len(str) + 1] = Nul THEN {str}
    ELSE {str \o g : g \in Paths(1)}

\* The current directories and path prefixes normalize_path is given as current.
Bases == {Root, <<"/", "a">>, <<"/", "a", "/">>}
\* normalize("/a/b", "../c/./d//e/..") and normalize("/x/", "y/.")
PathExamples ==
    {<< <<"/", "a", "/", "b">>,
        <<".", ".", "/", "c", "/", ".", "/", "d", "/", "/", "e", "/", ".", ".">> >>,
     << <<"/", "x", "/">>, <<"y", "/", ".">> >>}

PathOnly == UNCHANGED <<sigvars, vfsvars, pollvars>>

\* normalize_path(cwd, pathname, out)
Normalize ==
    /\ outs = <<>>
    /\ \E o \in PathOutputs(normalize_path(cwd, path_in)) : outs' = <<o>>
    /\ UNCHANGED <<cwd, path_in, vopen, mounts, dent, lookup>>
    /\ PathOnly

\* normalize_path("/", p, out) for the last output p
Renormalize ==
    /\ Len(outs) \in {1, 2}
    /\ \E o \in PathOutputs(normalize_path(Root, outs[Len(outs)])) :
          outs' = Append(outs, o)
    /\ UNCHANGED <<cwd, path_in, vopen, mounts, dent, lookup>>
    /\ PathOnly

(* ---------------------------------------------------- path resolution --- *)
\* The file system mounted at "/": directories, regular files and symlinks
\* with their targets.  A chain of symlinks l1 -> l2 -> ... ends at a file;
\* /a points to itself; /link points to the directory /real; /real/dl points
\* back to /real and /real/rel to its sibling "file".
ChainNames == <<"l1", "l2", "l3", "l4", "l5", "l6">>
ChainLength == MAX_SYMLINK_LEVEL + 1
Names == {"a", "link", "real", "file", "dl", "rel", ".."}
            \cup {ChainNames[k] : k \in 1 .. ChainLength}
Slash(name) == IF name = ".." THEN <<"/", ".", ".">> ELSE <<"/", name>>
Links ==
    [pth \in {Slash("a"), Slash("link"), Slash("real") \o Slash("dl"),
              Slash("real") \o Slash("rel")}
              \cup {Slash(ChainNames[k]) : k \in 1 .. ChainLength} |->
        CASE pth = Slash("a") -> Slash("a")
          [] pth = Slash("link") -> Slash("real")
          [] pth = Slash("real") \o Slash("dl") -> Slash("real")
          [] pth = Slash("real") \o Slash("rel") -> <<"file">>
          [] pth = Slash(ChainNames[ChainLength]) -> Slash("real") \o Slash("file")
          [] OTHER -> Slash(ChainNames[
                          1 + CHOOSE k \in 1 .. ChainLength - 1 : pth = Slash(ChainNames[k])])]
Nodes == {Root, Slash("real"), Slash("real") \o Slash("file")}

\* fs->open on subpath: 1 and the target for a symlink, 0 for a file or a
\* directory, -ENOENT otherwise (also when a component is a symlink).
FsOpen(subpath) ==
    LET pth == IF subpath = <<".">> THEN Root ELSE Root \o subpath IN
    IF pth \in DOMAIN Links THEN [r |-> 1, target |-> Links[pth]]
    ELSE IF pth \in Nodes THEN [r |-> 0, target |-> <<>>]
    ELSE [r |-> -ENOENT, target |-> <<>>]
\* fs->readlink on subpath: the length of the target and the target, -EINVAL
\* for what is not a symlink, -ENOENT for what does not exist.
FsReadlink(subpath) ==
    IF Root \o subpath \in DOMAIN Links
    THEN [r |-> Len(Links[Root \o subpath]), target |-> Links[Root \o subpath]]
    ELSE IF Root \o subpath \in Nodes THEN [r |-> -EINVAL, target |-> <<>>]
    ELSE [r |-> -ENOENT, target |-> <<>>]

\* while (*p && *p == *subpath) { p++; subpath++; }  if (*p == 0)
MountMatches(mountpoint, pth) ==
    /\ Len(mountpoint) <= Len(pth)
    /\ SubSeq(pth, 1, Len(mountpoint)) = mountpoint
\* find_filesystem: the first file system of the list whose mount point
\* matches, and subpath, the rest of the path less one '/'.
find_filesystem(pth) ==
    LET hits == {i \in 1 .. Len(mounts) : MountMatches(mounts[i].mountpoint, pth)}
        fs == mounts[Min(hits)]
        rest == SubSeq(pth, Len(fs.mountpoint) + 1, Len(pth)) IN
    IF hits = {} THEN [found |-> FALSE, fs |-> winfs_alloc, subpath |-> <<>>]
    ELSE [found |-> TRUE, fs |-> fs,
          subpath |-> IF At(rest, 1) = "/" THEN Tail(rest) ELSE rest]

\* The file systems a caller of vfs_add may mount: the two of vfs_init, and
\* two more whose mount points lie inside one another.
MountKinds ==
    {winfs_alloc, devfs_alloc,
     [name |-> "fs_a", mountpoint |-> <<"/", "a">>, ops |-> FsOps],
     [name |-> "fs_aa", mountpoint |-> <<"/", "a", "/", "a">>, ops |-> FsOps]}
\* The paths looked up.
MountPaths ==
    {pth \in Paths(MaxPathLen) : At(pth, 1) = "/"}
        \cup {<<"/", "dev">>, <<"/", "dev", "/", "a">>, <<"/", "dev", "a">>}

\* vfs_add(fs) for a file system that is not mounted yet.
VfsAdd ==
    /\ \E fs \in MountKinds :
          /\ \A i \in 1 .. Len(mounts) : mounts[i] # fs
          /\ mounts' = vfs_add(fs, mounts)
          /\ lookup' = [NoLookup EXCEPT !.added = Append(lookup.added, fs)]
    /\ UNCHANGED <<cwd, path_in, outs, vopen, dent>>
    /\ PathOnly

\* find_filesystem(path, &fs, &subpath), the first call since the last
\* vfs_add.
FindFilesystem ==
    /\ lookup.path = <<>>
    /\ \E pth \in MountPaths :
          LET r == find_filesystem(pth) IN
          lookup' = [lookup EXCEPT !.path = pth, !.found = r.found, !.fs = r.fs,
                                   !.subpath = r.subpath]
    /\ UNCHANGED <<cwd, path_in, outs, vopen, mounts, dent>>
    /\ PathOnly

\* The path up to its last '/': while (*p != '/') p--; p[1] = 0
RECURSIVE Dirname(_)
Dirname(pth) ==
    IF pth = <<>> \/ pth[Len(pth)] = "/" THEN pth
    ELSE Dirname(SubSeq(pth, 1, Len(pth) - 1))

\* Where the scan of resolve_symlink starts: subpath + strlen(subpath) - 1.
ProbeStart_Left(subpath) ==
    IF \E k \in 2 .. Len(subpath) : subpath[k] = "/"
    THEN CHOOSE k \in 2 .. Len(subpath) :
            subpath[k] = "/" /\ \A j \in 2 .. k - 1 : subpath[j] # "/"
    ELSE Len(subpath)
ProbeStart(subpath) == Len(subpath)

\* The loop of resolve_symlink at subpath[k - 1]; tr is the calls made so far.
\* On a symlink it gives the current and pathname of the normalize_path call.
RECURSIVE Probe(_, _, _)
Probe(subpath, k, tr) ==
    IF k < 2 THEN [r |-> -ENOENT, trace |-> tr]
    ELSE IF subpath[k] # "/" THEN Probe(subpath, k - 1, tr)
    ELSE LET prefix == SubSeq(subpath, 1, k - 1)
             rl == FsReadlink(prefix)
             tr1 == Append(tr, [op |-> "readlink", arg |-> prefix]) IN
         IF rl.r >= 0
         THEN [r |-> 0, trace |-> tr1,
               current |-> Dirname(Root \o prefix),
               target |-> rl.target \o <<"/">> \o SubSeq(subpath, k + 1, Len(subpath))]
         ELSE IF rl.r # -ENOENT THEN [r |-> rl.r, trace |-> tr1]
         ELSE Probe(subpath, k - 1, tr1)

resolve_symlink(fs, subpath, tr) ==
    IF "readlink" \notin fs.ops THEN [r |-> -ENOENT, trace |-> tr]
    ELSE Probe(subpath, ProbeStart(subpath), tr)

\* if (symlink_level == MAX_SYMLINK_LEVEL), and the same test one level late.
LevelExhausted_Late(level) == level = MAX_SYMLINK_LEVEL + 1
LevelExhausted(level) == level = MAX_SYMLINK_LEVEL

Returned(v, r, tr) == {[v EXCEPT !.pc = "done", !.ret = r, !.trace = tr]}
Retry(v, current, target, tr) ==
    {[v EXCEPT !.path = np, !.level = v.level + 1, !.trace = tr] :
        np \in PathOutputs(normalize_path(current, target))}

\* The file system's open called twice for one attempt.
OpenCall_Twice(tr, arg) ==
    tr \o <<[op |-> "open", arg |-> arg], [op |-> "open", arg |-> arg]>>
\* fs->open(*subpath ? subpath : ".", flags, mode, f, target, MAX_PATH), added
\* to the calls made so far.
OpenCall(tr, arg) == Append(tr, [op |-> "open", arg |-> arg])

\* One iteration of the loop of vfs_open: what vopen can be after it.
vfs_open(v) ==
    IF LevelExhausted(v.level) THEN Returned(v, -ELOOP, v.trace)
    ELSE IF ~find_filesystem(v.path).found THEN Returned(v, -ENOENT, v.trace)
    ELSE IF "open" \notin find_filesystem(v.path).fs.ops
    THEN Returned(v, -ENOENT, v.trace)
    ELSE LET subpath == find_filesystem(v.path).subpath
             arg == IF subpath = <<>> THEN <<".">> ELSE subpath
             o == FsOpen(arg)
             tr == OpenCall(v.trace, arg)
             rs == resolve_symlink(find_filesystem(v.path).fs, subpath, tr) IN
         CASE o.r = 0 -> Returned(v, 0, tr)
           [] o.r = 1 -> Retry(v, Dirname(v.path), o.target, tr)
           [] o.r = -ENOENT ->
                IF rs.r < 0 THEN Returned(v, o.r, rs.trace)
                ELSE Retry(v, rs.current, rs.target, rs.trace)
           [] OTHER -> Returned(v, o.r, tr)

\* The paths given to open: up to three names.
OpenPaths ==
    {Slash(a) : a \in Names}
        \cup {Slash(a) \o Slash(b) : a, b \in Names}
        \cup {Slash(a) \o Slash(b) \o Slash(c) : a \in {"link", "real", ".."}, b, c \in Names}

\* vfs_open: normalize_path(vfs->cwd, pathname, path)
VfsOpenBegin ==
    /\ vopen.pc = "idle"
    /\ \E np \in PathOutputs(normalize_path(cwd, path_in)) :
          vopen' = [NoOpen EXCEPT !.pc = "loop", !.path = np]
    /\ UNCHANGED <<cwd, path_in, outs, mounts, dent, lookup>>
    /\ PathOnly

\* vfs_open: one iteration of for (int symlink_level = 0;; symlink_level++)
VfsOpenLoop ==
    /\ vopen.pc = "loop" /\ vopen.op = "open"
    /\ vopen' \in vfs_open(vopen)
    /\ UNCHANGED <<cwd, path_in, outs, mounts, dent, lookup>>
    /\ PathOnly

\* The other operations of the file system on subpath: -ENOENT for a path
\* that is not there or runs through a symlink, 0 when the operation applies,
\* -EINVAL (an error other than -ENOENT) when it does not.
Dirs == {Root, Slash("real")}
FsCall(op, subpath) ==
    LET pth == Root \o subpath
        there == pth \in DOMAIN Links \/ pth \in Nodes
        parent == Dirname(pth)
        dir == IF Len(parent) > 1 THEN SubSeq(parent, 1, Len(parent) - 1) ELSE parent IN
    CASE op = "readlink" -> FsReadlink(subpath).r
      [] op \in {"unlink", "rmdir"} -> IF there THEN 0 ELSE -ENOENT
      [] OTHER -> IF there THEN -EINVAL ELSE IF dir \in Dirs THEN 0 ELSE -ENOENT

\* The operations the syscalls test before they call them: if (!fs->link) ...
TestedOps == {"open", "link", "rename", "mkdir", "rmdir"}
\* A call through a null pointer of the file system: the process faults, or
\* whatever is run in its place returns.
NullCall(v, tr) ==
    {[v EXCEPT !.pc = "fault", !.trace = tr]}
        \cup {[v EXCEPT !.pc = "done", !.ret = r, !.trace = tr] : r \in {0, -ENOENT, -EINVAL}}

\* vfs_release(f) before the returns of sys_link and sys_rename that have it;
\* the other syscalls hold no file.
Released(v) == IF v.op \in {"link", "rename"} THEN [v EXCEPT !.ref = @ - 1] ELSE v

\* A probe for symlinks after every error of the operation.
ProbesAfter_AnyError(fsret) == fsret < 0
\* else if (ret == -ENOENT): the answer after which the components are probed.
ProbesAfter(fsret) == fsret = -ENOENT

\* One iteration of the loop of sys_link, sys_unlink, sys_symlink,
\* sys_readlink, sys_rename, sys_mkdir and sys_rmdir: what vopen can be after it.
PathOpLoop(v) ==
    IF LevelExhausted(v.level) THEN Returned(v, -ELOOP, v.trace)
    ELSE IF ~find_filesystem(v.path).found THEN Returned(Released(v), -ENOENT, v.trace)
    ELSE LET fs == find_filesystem(v.path).fs
             subpath == find_filesystem(v.path).subpath
             absent == v.op \notin fs.ops
             tr == IF absent /\ v.op \in TestedOps THEN v.trace
                   ELSE Append(v.trace, [op |-> v.op, arg |-> subpath])
             fsret == IF absent THEN -ENOENT ELSE FsCall(v.op, subpath)
             rs == resolve_symlink(fs, subpath, tr) IN
         IF absent /\ v.op \notin TestedOps THEN NullCall(v, tr)
         ELSE IF ProbesAfter(fsret)
         THEN IF rs.r < 0 THEN Returned(Released(v), -ENOENT, rs.trace)
              ELSE Retry(v, rs.current, rs.target, rs.trace)
         ELSE Returned(Released(v), fsret, tr)

\* vfs_open from its first iteration to its return.
RECURSIVE RunOpen(_)
RunOpen(v) ==
    IF v.pc = "done" THEN {v} ELSE UNION {RunOpen(w) : w \in vfs_open(v)}

\* The paths given to the syscalls, and the oldpath of link and rename.
OpPaths ==
    {Slash(a) : a \in {"real", "link", "a", "file"}}
        \cup {Slash(a) \o Slash(b) : a \in {"real", "link", "a"}, b \in {"file", "dl", "new"}}
OldPaths == {Slash("real") \o Slash("file"), Slash("file")}

\* sys_unlink, sys_symlink, sys_readlink, sys_mkdir, sys_rmdir up to the loop:
\* the check of the pointers, then normalize_path(vfs->cwd, pathname, path)
SysPathBegin ==
    /\ vopen.pc = "idle"
    /\ \E op \in {"unlink", "symlink", "readlink", "mkdir", "rmdir"}, ok \in BOOLEAN :
          IF ~ok THEN vopen' = [NoOpen EXCEPT !.pc = "done", !.op = op, !.ret = -EFAULT,
                                              !.ptrs = FALSE]
          ELSE \E np \in PathOutputs(normalize_path(cwd, path_in)) :
                  vopen' = [NoOpen EXCEPT !.pc = "loop", !.op = op, !.path = np]
    /\ UNCHANGED <<cwd, path_in, outs, mounts, dent, lookup>>
    /\ PathOnly

\* sys_link and sys_rename up to the loop: the check of the pointers,
\* normalize_path on newpath, vfs_open on oldpath, winfs_is_winfile
SysLinkBegin ==
    /\ vopen.pc = "idle"
    /\ \E op \in {"link", "rename"}, ok \in BOOLEAN, oldpath \in OldPaths, winfile \in BOOLEAN :
          IF ~ok THEN vopen' = [NoOpen EXCEPT !.pc = "done", !.op = op, !.ret = -EFAULT,
                                              !.ptrs = FALSE]
          ELSE \E np \in PathOutputs(normalize_path(cwd, path_in)),
                  op0 \in PathOutputs(normalize_path(cwd, oldpath)) :
               \E o \in RunOpen([NoOpen EXCEPT !.pc = "loop", !.path = op0]) :
                  vopen' = IF o.ret < 0 THEN [o EXCEPT !.op = op]
                           ELSE IF ~winfile
                           THEN [o EXCEPT !.op = op, !.ret = -EPERM, !.ref = 1]
                           ELSE [NoOpen EXCEPT !.pc = "loop", !.op = op, !.path = np,
                                               !.trace = o.trace, !.ref = 1]
    /\ UNCHANGED <<cwd, path_in, outs, mounts, dent, lookup>>
    /\ PathOnly

\* The syscalls that check pathname and buf, and those that check buf only.
StatCalls == {"newstat", "newlstat"}
StatBufCalls == {"stat64", "lstat64", "stat", "lstat", "statfs", "statfs64"}

\* vfs_stat, vfs_lstat, vfs_statfs on pathname: vfs_open, then the stat or
\* statfs operation of the file, -EBADF when it has none.
vfs_stat(v, pathname) ==
    {[o EXCEPT !.op = v.op, !.ptrs = v.ptrs,
               !.ret = IF o.ret # 0 THEN o.ret ELSE IF hasop THEN 0 ELSE -EBADF] :
        o \in UNION {RunOpen([NoOpen EXCEPT !.pc = "loop", !.path = np]) :
                        np \in PathOutputs(normalize_path(cwd, pathname))},
        hasop \in BOOLEAN}

\* sys_newstat, sys_newlstat, sys_stat64, sys_lstat64, sys_stat, sys_lstat,
\* sys_statfs, sys_statfs64.  A pathname that is not valid and not checked is
\* read by normalize_path: the read faults, or gives whatever bytes are there.
SysStat ==
    /\ vopen.pc = "idle"
    /\ \E call \in StatCalls \cup StatBufCalls, pathok, bufok, szok \in BOOLEAN :
         LET v == [NoOpen EXCEPT !.op = call, !.ptrs = pathok /\ bufok] IN
         IF call = "statfs64" /\ ~szok
         THEN vopen' = [v EXCEPT !.pc = "done", !.ret = -EINVAL]
         ELSE IF ~bufok \/ (call \in StatCalls /\ ~pathok)
         THEN vopen' = [v EXCEPT !.pc = "done", !.ret = -EFAULT]
         ELSE IF ~pathok
         THEN \/ vopen' = [v EXCEPT !.pc = "fault"]
              \/ \E bytes \in OpPaths : vopen' \in vfs_stat(v, bytes)
         ELSE vopen' \in vfs_stat(v, path_in)
    /\ UNCHANGED <<cwd, path_in, outs, mounts, dent, lookup>>
    /\ PathOnly

\* One iteration of for (int symlink_level = 0;; symlink_level++) of the
\* seven syscalls.
SysPathLoop ==
    /\ vopen.pc = "loop" /\ vopen.op # "open"
    /\ vopen' \in PathOpLoop(vopen)
    /\ UNCHANGED <<cwd, path_in, outs, mounts, dent, lookup>>
    /\ PathOnly

(* ------------------------------------------------------ directory entries --- *)
\* sizeof(struct linux_dirent64), offsetof(struct linux_dirent64, d_name) and
\* offsetof(struct linux_dirent, d_name), for the layouts a build can have.
DirentLayouts == {<<24, 19, 10>>, <<20, 19, 10>>, <<24, 19, 18>>}

\* x & ~(uintptr_t)8 for 0 <= x < 2^32
AndNot8(x) == IF (x \div 8) % 2 = 1 THEN x - 8 ELSE x
\* dirent->d_reclen = ..., an unsigned short
Reclen(layout, len) == AndNot8(layout[1] + len + 1 + 8) % 65536

\* getdents_fill and getdents64_fill, for a name of len bytes.
getdents_fill ==
    /\ dent.pc = "idle"
    /\ dent' = [dent EXCEPT !.pc = "done", !.d_reclen = Reclen(dent.layout, dent.len)]
    /\ UNCHANGED <<cwd, path_in, outs, vopen, mounts, lookup>>
    /\ PathOnly

\* The bytes the record takes: the header, the name, its NUL, and for
\* linux_dirent the type byte.
RecordBytes(d) ==
    IF d.call = "getdents64" THEN d.layout[2] + d.len + 1 ELSE d.layout[3] + d.len + 2

(* ------------------------------------- the syscalls on a descriptor --- *)
\* A pointer that is neither NULL nor a file of the model.
WildPtr == -1
\* vfs->fds[fd] as the syscalls read it, without a test of fd: the slot for a
\* descriptor of the table, and for any other fd what the memory at that
\* place holds, NULL or not.
TableLoad(st, fd, beyond) == IF fd \in Fds THEN st.fds[fd] ELSE beyond
Beyond(fd) == IF fd \in Fds THEN {NULL} ELSE {NULL, WildPtr}

\* read, write, pread64, pwrite64, readv, writev, lseek, llseek, getdents,
\* getdents64, vfs_fstat, ioctl: f = vfs->fds[fd]; the operation of f is
\* called when f is not NULL and has it (hasop), and returns r.
FileOpCalls == {"read", "write", "lseek", "getdents", "fstat", "ioctl"}
sys_file_op(st, fd, beyond, hasop, r) ==
    LET f == TableLoad(st, fd, beyond) IN
    IF f # NULL /\ hasop THEN r ELSE -EBADF

SysFileOp ==
    /\ VfsCall
    /\ \E call \in FileOpCalls, fd \in FdArgs, hasop \in BOOLEAN, r \in {0, -EFAULT} :
       \E beyond \in Beyond(fd) :
          LET o == sys_file_op(VfsState, fd, beyond, hasop, r) IN
          /\ fdcall' = [call |-> call, fd |-> fd, read |-> {fd}, written |-> {}, ret |-> o]
          /\ Traced(call, <<fd>>, o)
    /\ UNCHANGED <<fds, fds_cloexec, ref, closes, umask, borrows>>
    /\ UNCHANGED <<sigvars, pathvars, sel>>

\* close(fd) for any fd: vfs->fds[fd] is read, and when it is not NULL
\* vfs_close releases what it points to and writes NULL to vfs->fds[fd]; the
\* slots of the table are left alone when fd is not one of them.
SysCloseFd ==
    /\ VfsCall
    /\ \E fd \in FdArgs :
       \E beyond \in Beyond(fd) :
          LET f == TableLoad(VfsState, fd, beyond)
              o == IF fd \in Fds THEN sys_close(VfsState, fd)
                   ELSE Outcome(VfsState, IF f = NULL THEN -EBADF ELSE 0)
          IN /\ SetVfs(o.st)
             /\ fdcall' = [call |-> "close", fd |-> fd, read |-> {fd},
                           written |-> IF f = NULL THEN {} ELSE {fd}, ret |-> o.r]
             /\ Traced("close", <<fd>>, o.r)
    /\ UNCHANGED <<umask, borrows>>
    /\ UNCHANGED <<sigvars, pathvars, sel>>

\* dup(fd) for any fd: vfs_dup takes the file from vfs_get, which tests fd
\* before it reads the table.
SysDupFd ==
    /\ VfsCall
    /\ \E fd \in FdArgs :
          LET o == sys_dup(VfsState, fd) IN
          /\ SetVfs(o.st)
          /\ fdcall' = [call |-> "dup", fd |-> fd,
                        read |-> IF fd < 0 \/ fd >= MAX_FD_COUNT THEN {} ELSE {fd},
                        written |-> IF o.r >= 0 THEN {o.r} ELSE {}, ret |-> o.r]
          /\ Traced("dup", <<fd>>, o.r)
    /\ UNCHANGED <<umask, borrows>>
    /\ UNCHANGED <<sigvars, pathvars, sel>>

(* ------------------------------------------------------ poll, select --- *)
\* The events select asks poll for.
PollEvents == {"POLLIN", "POLLOUT", "POLLERR"}
\* The largest nfds given to select.
MaxNfds == 2
\* What get_poll_status reports for a file that has it.
PollStatus == {{}, {"POLLIN"}, {"POLLOUT"}, {"POLLIN", "POLLOUT"}, {"POLLERR"}}
\* The slot of a descriptor as sys_poll sees it: empty; a file without
\* get_poll_handle; a file with get_poll_status, which reports e now, and a
\* handle good for every event; a file with get_poll_handle only, whose handle
\* stands for the events he.
PollFiles ==
    {[kind |-> "null", e |-> {}, he |-> {}], [kind |-> "nopoll", e |-> {}, he |-> {}]}
    \cup {[kind |-> "status", e |-> e, he |-> PollEvents] : e \in PollStatus}
    \cup {[kind |-> "handle", e |-> {}, he |-> he] : he \in {{"POLLIN"}, {"POLLOUT"}}}

\* struct fdset behind a pointer that may be NULL.
FdSets(nfds) ==
    {[ptr |-> FALSE, bits |-> {}]}
    \cup {[ptr |-> TRUE, bits |-> S] : S \in SUBSET (0 .. nfds - 1)}
LINUX_FD_ISSET(i, set) == i \in set.bits
LINUX_FD_ZERO(set) == [set EXCEPT !.bits = {}]
LINUX_FD_SET(S, set) == [set EXCEPT !.bits = @ \cup S]

\* The events sys_select computes for descriptor i.
SelectEvents(i, readfds, writefds, exceptfds) ==
    (IF readfds.ptr /\ LINUX_FD_ISSET(i, readfds) THEN {"POLLIN"} ELSE {})
    \cup (IF writefds.ptr /\ LINUX_FD_ISSET(i, writefds) THEN {"POLLOUT"} ELSE {})
    \cup (IF exceptfds.ptr /\ LINUX_FD_ISSET(i, exceptfds) THEN {"POLLERR"} ELSE {})

\* The first loop of sys_select from descriptor i on: one entry of fds[] for
\* each descriptor with events, in the order of the descriptors.
RECURSIVE SelectFds(_, _, _, _, _)
SelectFds(i, nfds, readfds, writefds, exceptfds) ==
    IF i >= nfds THEN <<>>
    ELSE LET events == SelectEvents(i, readfds, writefds, exceptfds) IN
         (IF events # {} THEN <<[fd |-> i, events |-> events, revents |-> {}]>> ELSE <<>>)
         \o SelectFds(i + 1, nfds, readfds, writefds, exceptfds)

\* One round of the second loop of sys_poll on the entry p, whose slot holds f:
\* revents, whether num_result is incremented, whether done is set, and
\* whether the handle of f is put in handles[].
PollEntry(p, f) ==
    IF p.fd < 0 THEN [revents |-> {}, n |-> 0, done |-> FALSE, wait |-> FALSE]
    ELSE IF f.kind = "null"
    THEN [revents |-> {"POLLNVAL"}, n |-> 1, done |-> FALSE, wait |-> FALSE]
    ELSE IF f.kind = "nopoll" THEN [revents |-> {}, n |-> 0, done |-> FALSE, wait |-> FALSE]
    ELSE IF f.kind = "status" /\ p.events \cap f.e # {}
    THEN [revents |-> p.events \cap f.e, n |-> 1, done |-> TRUE, wait |-> FALSE]
    ELSE [revents |-> {}, n |-> 0, done |-> FALSE, wait |-> p.events \cap f.he # {}]

\* sys_poll up to WaitForMultipleObjects, on the array fds of which files
\* gives the slots: the array, num_result, done and indices[].
PollScan(pfds, files) ==
    LET r == [k \in 1 .. Len(pfds) |-> PollEntry(pfds[k], files[pfds[k].fd + 1])] IN
    [fds |-> [k \in 1 .. Len(pfds) |-> [pfds[k] EXCEPT !.revents = r[k].revents]],
     num_result |-> Cardinality({k \in 1 .. Len(pfds) : r[k].n = 1}),
     done |-> \E k \in 1 .. Len(pfds) : r[k].done,
     indices |-> {k \in 1 .. Len(pfds) : r[k].wait}]

\* select(nfds, readfds, writefds, exceptfds, timeout) with pointers the
\* memory manager accepts: the array for sys_poll is built and sys_poll runs
\* up to its wait, or to its return when it has nothing to wait for.
SysSelect ==
    /\ sel.pc = "idle"
    /\ \E nfds \in 0 .. MaxNfds :
       \E readfds \in FdSets(nfds), writefds \in FdSets(nfds), exceptfds \in FdSets(nfds),
          timeout \in BOOLEAN, files \in [1 .. nfds -> PollFiles] :
          LET pfds == SelectFds(0, nfds, readfds, writefds, exceptfds)
              scan == PollScan(pfds, files)
              waits == scan.indices # {} /\ ~scan.done
          IN sel' = [sel EXCEPT !.pc = IF waits THEN "wait" ELSE "polled",
                                !.nfds = nfds, !.readfds = readfds, !.writefds = writefds,
                                !.exceptfds = exceptfds, !.timeout = timeout,
                                !.files = files, !.fds = scan.fds, !.cnt = Len(pfds),
                                !.waited = scan.indices, !.num_result = scan.num_result,
                                !.ret = scan.num_result,
                                !.in = [readfds |-> readfds.bits, writefds |-> writefds.bits,
                                        exceptfds |-> exceptfds.bits]]
    /\ UNCHANGED <<sigvars, vfsvars, pathvars, fdcall>>

\* One WaitForMultipleObjects of sys_poll: it times out, or fails, or the
\* handle of entry id is signalled and the events of its file are read again.
PollWait ==
    /\ sel.pc = "wait"
    /\ \/ sel.timeout /\ sel' = [sel EXCEPT !.pc = "polled", !.ret = 0]
       \/ sel' = [sel EXCEPT !.pc = "polled", !.ret = -ENOMEM]
       \/ \E id \in sel.waited :
          \E e \in IF sel.files[sel.fds[id].fd + 1].kind = "status" THEN PollStatus
                   ELSE {sel.files[sel.fds[id].fd + 1].he} :
             IF e \cap sel.fds[id].events = {}
             THEN \* not ready after all: wait again, or give up when no time remains
                  \/ sel.timeout /\ sel' = [sel EXCEPT !.pc = "polled"]
                  \/ UNCHANGED sel
             ELSE sel' = [sel EXCEPT !.pc = "polled",
                                     !.fds[id].revents = sel.fds[id].events \cap e,
                                     !.num_result = @ + 1, !.ret = sel.num_result + 1]
    /\ UNCHANGED <<sigvars, vfsvars, pathvars, fdcall>>

\* fds[i].revents as the last loop of sys_select reads it for i < nfds: sys_poll
\* wrote the first cnt entries, the others are what the stack held.
SelectRevents(v, garbage, i) == IF i + 1 <= v.cnt THEN v.fds[i + 1].revents ELSE garbage[i + 1]

\* The descriptors the last loop of sys_select sets for the event ev.
SelectResult(v, garbage, ev) == {i \in 0 .. v.nfds - 1 : ev \in SelectRevents(v, garbage, i)}

\* sys_select after sys_poll returned r: r <= 0 is returned with the sets as
\* they were; otherwise the sets are cleared and filled from fds[0 .. nfds).
SysSelectReturn ==
    /\ sel.pc = "polled"
    /\ IF sel.ret <= 0 THEN sel' = [sel EXCEPT !.pc = "done"]
       ELSE \E garbage \in [sel.cnt + 1 .. sel.nfds -> SUBSET PollEvents] :
               sel' = [sel EXCEPT
                   !.pc = "done",
                   !.readfds = IF @.ptr
                               THEN LINUX_FD_SET(SelectResult(sel, garbage, "POLLIN"),
                                                 LINUX_FD_ZERO(@))
                               ELSE @,
                   !.writefds = IF @.ptr
                                THEN LINUX_FD_SET(SelectResult(sel, garbage, "POLLOUT"),
                                                  LINUX_FD_ZERO(@))
                                ELSE @,
                   !.exceptfds = IF @.ptr
                                 THEN LINUX_FD_SET(SelectResult(sel, garbage, "POLLERR"),
                                                   LINUX_FD_ZERO(@))
                                 ELSE @]
    /\ UNCHANGED <<sigvars, vfsvars, pathvars, fdcall>>

(* ------------------------------------------------- the specifications --- *)
FreeScript == [k \in 1 .. MaxCalls |-> AnyCall]

\* The signal core with handlers installed: masks, kills from the main thread
\* and from other threads, delivery, handler setup and return.
Init ==
    /\ SigInit
    /\ actions = HandlerActions
    /\ mask = {}
    /\ script = FreeScript
    /\ VfsInit

Next ==
    \/ WorkerDequeue
    \/ WorkerEnter
    \/ signal_thread_handle_kill
    \/ WorkerDeliverPending
    \/ DeliverSuspend
    \/ DeliverGetContext
    \/ DeliverStoreSiginfo
    \/ DeliverSetEvent
    \/ DeliverSetContext
    \/ DeliverResume
    \/ WorkerLeave
    \/ MainEnter
    \/ sys_rt_sigprocmask
    \/ sys_rt_sigprocmask_cs
    \/ MainKill
    \/ signal_setup_handler_begin
    \/ signal_setup_handler
    \/ sys_rt_sigreturn
    \/ sys_rt_sigreturn_cs
    \/ ExternalKill

Spec == Init /\ [][Next]_vars

\* The action table: rt_sigaction calls from the table of signal_init, with
\* signals arriving from other threads.
InitAct ==
    /\ SigInit
    /\ actions = DefaultActions
    /\ mask = {}
    /\ script = FreeScript
    /\ VfsInit

NextAct ==
    \/ WorkerDequeue
    \/ WorkerEnter
    \/ signal_thread_handle_kill
    \/ DeliverSuspend
    \/ DeliverGetContext
    \/ DeliverStoreSiginfo
    \/ DeliverSetEvent
    \/ DeliverSetContext
    \/ DeliverResume
    \/ WorkerLeave
    \/ MainEnter
    \/ sys_rt_sigaction
    \/ sys_rt_sigaction_cs
    \/ signal_setup_handler_begin
    \/ signal_setup_handler
    \/ ExternalKill

SpecAct == InitAct /\ [][NextAct]_vars

\* Child processes: each is added, dies at any time, and is reported by the
\* worker; SIGCHLD starts either unblocked or blocked.
InitChild ==
    /\ SigInit
    /\ actions = HandlerActions
    /\ mask \in {{}, {SIGCHLD}}
    /\ script = FreeScript
    /\ VfsInit

NextChild ==
    \/ WorkerDequeue
    \/ WorkerChildCompletion
    \/ WorkerAddProcess
    \/ WorkerEnter
    \/ signal_thread_handle_kill
    \/ WorkerDeliverPending
    \/ DeliverSuspend
    \/ DeliverGetContext
    \/ DeliverStoreSiginfo
    \/ DeliverSetEvent
    \/ DeliverSetContext
    \/ DeliverResume
    \/ WorkerLeave
    \/ signal_thread_handle_process_terminated
    \/ MainEnter
    \/ signal_add_process
    \/ ChildExit
    \/ signal_setup_handler_begin
    \/ signal_setup_handler
    \/ sys_rt_sigreturn
    \/ sys_rt_sigreturn_cs

SpecChild == InitChild /\ [][NextChild]_vars

\* Shutdown: signal_shutdown on the main thread while signals keep arriving.
NextShutdown ==
    \/ WorkerDequeue
    \/ WorkerEnter
    \/ signal_thread_handle_kill
    \/ DeliverSuspend
    \/ DeliverGetContext
    \/ DeliverStoreSiginfo
    \/ DeliverSetEvent
    \/ DeliverSetContext
    \/ DeliverResume
    \/ WorkerLeave
    \/ MainEnter
    \/ signal_setup_handler_begin
    \/ signal_setup_handler
    \/ MainKill
    \/ ExternalKill
    \/ signal_shutdown
    \/ signal_shutdown_wait

SpecShutdown == Init /\ [][NextShutdown]_vars

\* Scenario S4: the guest installs a handler for SIGUSR1, blocks SIGUSR1 and
\* sends it to itself; it then either leaves SIGUSR1 blocked, or unblocks it
\* and the handler runs and returns.
S4Info == [si_signo |-> SIGUSR1, si_code |-> MainCode]
S4Blocking(act, oldact, oldset) ==
    << Call("rt_sigaction", <<SIGUSR1, Ptr("valid", act), oldact, SigsetSize>>),
       Call("rt_sigprocmask", <<SIG_BLOCK, Ptr("valid", {SIGUSR1}), oldset, SigsetSize>>),
       Call("signal_kill", <<SelfPid, S4Info>>) >>
S4Unblock(oldset) ==
    Call("rt_sigprocmask", <<SIG_UNBLOCK, Ptr("valid", {SIGUSR1}), oldset, SigsetSize>>)
S4Script(act, oldact, oldset, unblock) ==
    IF unblock THEN Append(S4Blocking(act, oldact, oldset), S4Unblock(oldset))
    ELSE S4Blocking(act, oldact, oldset)

InitS4 ==
    /\ SigInit
    /\ actions = DefaultActions
    /\ mask = {}
    /\ script \in {S4Script(act, oldact, oldset, unblock) :
                      act \in {PlainHandler, MaskingHandler},
                      oldact \in {"null", "valid"}, oldset \in {"null", "valid"},
                      unblock \in BOOLEAN}
    /\ VfsInit

WorkerS4 ==
    \/ WorkerDequeue
    \/ WorkerEnter
    \/ signal_thread_handle_kill
    \/ WorkerDeliverPending
    \/ DeliverSuspend
    \/ DeliverGetContext
    \/ DeliverStoreSiginfo
    \/ DeliverSetEvent
    \/ DeliverSetContext
    \/ DeliverResume
    \/ WorkerLeave

MainS4 ==
    \/ MainEnter
    \/ sys_rt_sigaction
    \/ sys_rt_sigaction_cs
    \/ sys_rt_sigprocmask
    \/ sys_rt_sigprocmask_cs
    \/ MainKill
    \/ signal_setup_handler_begin
    \/ signal_setup_handler
    \/ sys_rt_sigreturn
    \/ sys_rt_sigreturn_cs

NextS4 == WorkerS4 \/ MainS4

\* The worker thread and the main thread are both scheduled fairly.
SpecS4 == InitS4 /\ [][NextS4]_vars /\ WF_vars(WorkerS4) /\ WF_vars(MainS4)

\* The descriptor table: the syscalls and the kernel's calls in any order.
InitVfs ==
    /\ SigInit
    /\ actions = DefaultActions
    /\ mask = {}
    /\ script = <<>>
    /\ VfsInit

NextVfs ==
    \/ Open
    \/ Close
    \/ Dup
    \/ Dup2
    \/ Dup3
    \/ Pipe2
    \/ VfsReset
    \/ KernelOpen
    \/ KernelRef
    \/ KernelRelease
    \/ KernelStoreFile
    \/ VfsShutdown
    \/ Fcntl

SpecVfs == InitVfs /\ [][NextVfs]_vars

\* The same calls, each recorded with its arguments and its return value,
\* from the moment the guest has closed some of its console descriptors.
InitFd ==
    /\ SigInit
    /\ actions = DefaultActions
    /\ mask = {}
    /\ script = <<>>
    /\ \E D \in SUBSET Fds : VfsStart(CloseEach(ConsoleTable, D))
    /\ PathIdle
    /\ vlimit = MaxTracedCalls
    /\ vlast = NoVfsCall

NextFd ==
    \/ NextVfs
    \/ Umask

SpecFd == InitFd /\ [][NextFd]_vars

\* normalize_path on a current directory and a path, then on its own output.
InitPath ==
    /\ SigInit
    /\ actions = DefaultActions
    /\ mask = {}
    /\ script = <<>>
    /\ VfsStart(ConsoleTable) /\ vlimit = MaxVfsCalls /\ vlast = Untraced
    /\ \E in \in (Bases \X Paths(MaxPathLen)) \cup PathExamples :
          cwd = in[1] /\ path_in = in[2]
    /\ outs = <<>>
    /\ vopen = NoOpen
    /\ mounts = <<winfs_alloc>> /\ dent = NoDent /\ lookup = NoLookup

NextPath ==
    \/ Normalize
    \/ Renormalize

SpecPath == InitPath /\ [][NextPath]_vars

\* vfs_open on a path of the file system, from the root directory.
InitOpen ==
    /\ SigInit
    /\ actions = DefaultActions
    /\ mask = {}
    /\ script = <<>>
    /\ VfsStart(ConsoleTable) /\ vlimit = MaxVfsCalls /\ vlast = Untraced
    /\ cwd = Root /\ path_in \in OpenPaths /\ outs = <<>> /\ vopen = NoOpen
    /\ mounts = <<winfs_alloc>> /\ dent = NoDent /\ lookup = NoLookup

NextOpen ==
    \/ VfsOpenBegin
    \/ VfsOpenLoop

SpecOpen == InitOpen /\ [][NextOpen]_vars

\* The eight path syscalls on a file system mounted at "/" that provides all
\* the operations, or all but one or two.
FsKinds ==
    {[winfs_alloc EXCEPT !.ops = FsOps \ M] :
        M \in {{}} \cup {{op} : op \in FsOps} \cup {{op, "readlink"} : op \in FsOps}}
InitOps ==
    /\ SigInit
    /\ actions = DefaultActions
    /\ mask = {}
    /\ script = <<>>
    /\ VfsStart(ConsoleTable) /\ vlimit = MaxVfsCalls /\ vlast = Untraced
    /\ cwd = Root /\ path_in \in OpPaths /\ outs = <<>> /\ vopen = NoOpen
    /\ dent = NoDent
    /\ \E fs \in FsKinds : mounts = <<fs>>
    /\ lookup = NoLookup

NextOps ==
    \/ VfsOpenBegin
    \/ VfsOpenLoop
    \/ SysPathBegin
    \/ SysLinkBegin
    \/ SysStat
    \/ SysPathLoop

SpecOps == InitOps /\ [][NextOps]_vars

\* rt_sigsuspend: the guest blocks a signal or not, sends it to itself or not,
\* and calls rt_sigsuspend; another thread may send a signal afterwards.
SuspendBlock(s) ==
    Call("rt_sigprocmask", <<SIG_BLOCK, Ptr("valid", {s}), "null", SigsetSize>>)
SuspendUnblock(s) ==
    Call("rt_sigprocmask", <<SIG_UNBLOCK, Ptr("valid", {s}), "null", SigsetSize>>)
SuspendKill(s) == Call("signal_kill", <<SelfPid, [si_signo |-> s, si_code |-> MainCode]>>)
SuspendCall(m) == Call("rt_sigsuspend", <<Ptr("valid", m)>>)
SuspendScripts ==
    UNION {{<<SuspendBlock(s), SuspendKill(s), SuspendCall(m)>>,
            <<SuspendBlock(s), SuspendKill(s), SuspendCall(m), Call("external_kill", <<>>)>>,
            <<SuspendKill(s), SuspendCall(m)>>,
            <<SuspendCall(m), Call("external_kill", <<>>)>>,
            <<SuspendBlock(s), SuspendKill(s), SuspendUnblock(s)>>} :
              s \in Sigs, m \in SUBSET Sigs}

InitSuspend ==
    /\ SigInit
    /\ actions = HandlerActions
    /\ mask = {}
    /\ script \in SuspendScripts
    /\ VfsInit

MainSuspend ==
    \/ MainEnter
    \/ sys_rt_sigprocmask
    \/ sys_rt_sigprocmask_cs
    \/ sys_rt_sigsuspend
    \/ sys_rt_sigsuspend_cs
    \/ signal_wait
    \/ sys_rt_sigsuspend_restore
    \/ MainKill
    \/ signal_setup_handler_begin
    \/ signal_setup_handler
    \/ sys_rt_sigreturn
    \/ sys_rt_sigreturn_cs

NextSuspend == WorkerS4 \/ MainSuspend \/ ExternalKill

\* The worker thread and the main thread are both scheduled fairly; a signal
\* from another thread may never come.
SpecSuspend ==
    InitSuspend /\ [][NextSuspend]_vars /\ WF_vars(WorkerS4) /\ WF_vars(MainSuspend)

\* Two signals unmasked at once: the guest chooses the action of SIGUSR1,
\* blocks SIGUSR1 and SIGCHLD, sends both to itself in either order and
\* unblocks them with SIG_UNBLOCK or SIG_SETMASK.
PendingScripts ==
    {<<Call("rt_sigaction", <<SIGUSR1, Ptr("valid", act), "null", SigsetSize>>),
       Call("rt_sigprocmask", <<SIG_BLOCK, Ptr("valid", Sigs), "null", SigsetSize>>),
       SuspendKill(s1), SuspendKill(s2),
       Call("rt_sigprocmask", <<um[1], Ptr("valid", um[2]), "null", SigsetSize>>)>> :
          act \in {IgnAct, PlainHandler, MaskingHandler},
          s1 \in Sigs, s2 \in Sigs,
          um \in {<<SIG_UNBLOCK, Sigs>>, <<SIG_SETMASK, {}>>}}

InitPending ==
    /\ SigInit
    /\ actions = HandlerActions
    /\ mask = {}
    /\ script \in PendingScripts
    /\ VfsInit

\* The worker thread and the main thread are both scheduled fairly.
SpecPending ==
    InitPending /\ [][NextS4]_vars /\ WF_vars(WorkerS4) /\ WF_vars(MainS4)

\* Every writer of mask, pending and can_accept_signal: the syscalls of the
\* main thread with rt_sigsuspend among them, the worker on KILL and DELIVER
\* packets and on the death of a child.
NextMutex ==
    \/ WorkerDequeue
    \/ WorkerChildCompletion
    \/ WorkerAddProcess
    \/ WorkerEnter
    \/ signal_thread_handle_kill
    \/ WorkerDeliverPending
    \/ DeliverSuspend
    \/ DeliverGetContext
    \/ DeliverStoreSiginfo
    \/ DeliverSetEvent
    \/ DeliverSetContext
    \/ DeliverResume
    \/ WorkerLeave
    \/ signal_thread_handle_process_terminated
    \/ MainEnter
    \/ sys_rt_sigprocmask
    \/ sys_rt_sigprocmask_cs
    \/ sys_rt_sigsuspend
    \/ sys_rt_sigsuspend_cs
    \/ signal_wait
    \/ sys_rt_sigsuspend_restore
    \/ MainKill
    \/ signal_add_process
    \/ ChildExit
    \/ signal_setup_handler_begin
    \/ signal_setup_handler
    \/ sys_rt_sigreturn
    \/ sys_rt_sigreturn_cs
    \/ ExternalKill

SpecMutex == Init /\ [][NextMutex]_vars

\* The mount list: file systems added in any order, and paths looked up.
InitMount ==
    /\ SigInit
    /\ actions = DefaultActions
    /\ mask = {}
    /\ script = <<>>
    /\ VfsStart(ConsoleTable) /\ vlimit = MaxVfsCalls /\ vlast = Untraced
    /\ cwd = Root /\ path_in = <<>> /\ outs = <<>> /\ vopen = NoOpen
    /\ mounts = <<>> /\ dent = NoDent /\ lookup = NoLookup

NextMount ==
    \/ VfsAdd
    \/ FindFilesystem

SpecMount == InitMount /\ [][NextMount]_vars

\* A fill callback on a name of any length.
InitDents ==
    /\ SigInit
    /\ actions = DefaultActions
    /\ mask = {}
    /\ script = <<>>
    /\ VfsStart(ConsoleTable) /\ vlimit = MaxVfsCalls /\ vlast = Untraced
    /\ cwd = Root /\ path_in = <<>> /\ outs = <<>> /\ vopen = NoOpen
    /\ mounts = <<winfs_alloc>> /\ lookup = NoLookup
    /\ \E call \in {"getdents", "getdents64"}, len \in 0 .. MaxNameLen, layout \in DirentLayouts :
          dent = [NoDent EXCEPT !.call = call, !.len = len, !.layout = layout]

SpecDents == InitDents /\ [][getdents_fill]_vars

\* One select on descriptors of any kind.
NextSelect ==
    \/ SysSelect
    \/ PollWait
    \/ SysSelectReturn

SpecSelect == InitVfs /\ [][NextSelect]_vars

\* The syscalls that take a descriptor, on any fd.
NextFdCall ==
    \/ SysFileOp
    \/ SysCloseFd
    \/ SysDupFd

SpecFdCall == InitFd /\ [][NextFdCall]_vars

(* --------------------------------------------------------- the claims --- *)
\* The script of scenario S4 has the UNBLOCK call, and that call has completed.
S4Unblocked ==
    /\ ret.call = "rt_sigprocmask" \/ ret.call = "rt_sigreturn"
    /\ script = <<>> /\ margs.call # "rt_sigprocmask"
\* The kill of scenario S4 has been sent and SIGUSR1 has been blocked since:
\* the UNBLOCK call, if there is one, has not begun.
S4Blocked ==
    /\ ret.call = "signal_kill"
    /\ margs.call # "rt_sigprocmask"
\* The worker has handled every packet sent so far.
WorkerIdle == pipe = <<>> /\ wpc = "wait"

\* C1: scenario S4: the handler for SIGUSR1 is not invoked while SIGUSR1 is
\* blocked, and the kill leaves pending = {SIGUSR1}; after the UNBLOCK the
\* handler is eventually invoked, and it is invoked exactly once.
C1_BlockedThenDelivered ==
    /\ [](invoked[SIGUSR1] > 0 => S4Unblocked)
    /\ [](S4Blocked /\ WorkerIdle => pending = {SIGUSR1} /\ SIGUSR1 \in mask)
    /\ [](invoked[SIGUSR1] <= 1)
    /\ (Len(script) = 3 => <>[](S4Blocked /\ pending = {SIGUSR1} /\ invoked[SIGUSR1] = 0))
    /\ (Len(script) = 4 => <>[](invoked[SIGUSR1] = 1 /\ pending = {}))

\* C1 witness: the scenario has run to its end: the kill was recorded as
\* pending while SIGUSR1 was blocked, the handler ran once after the unblock
\* and has returned, nothing is pending and the mask is empty again.
C1_Witness ==
    /\ script = <<>> /\ mpc = "guest"
    /\ invoked[SIGUSR1] = 1
    /\ info[SIGUSR1] = S4Info
    /\ ret.call = "rt_sigreturn" /\ ret.val = 0
    /\ pending = {} /\ mask = {} /\ pipe = <<>> /\ wpc = "wait"

\* A DELIVER packet is in flight: sent to the pipe and not yet fully handled.
DeliverInFlight ==
    \/ \E k \in 1 .. Len(pipe) : pipe[k].type = SIGNAL_PACKET_DELIVER
    \/ wpacket.type = SIGNAL_PACKET_DELIVER

\* C2: the worker starts a delivery for a signal only when, under the mutex,
\* the signal is not in the mask and can_accept_signal is true; a KILL packet
\* for a signal that is not pending and is masked, or that comes while
\* can_accept_signal is false, only sets the pending bit and records its
\* siginfo.
C2_DeliverOnlyWhenAcceptable ==
    [][ /\ (wpc # "d_suspend" /\ wpc' = "d_suspend") \/ (~exited /\ exited')
           => /\ winfo'.si_signo \notin mask
              /\ can_accept_signal
              /\ mutex = "worker"
        /\ wpc = "kill_cs" /\ wpc' # "kill_cs" /\ winfo.si_signo \notin pending'
           => /\ winfo.si_signo \notin mask
              /\ can_accept_signal
              /\ mutex = "worker"
        /\ wpc = "deliver_cs" /\ pending' # pending
           => /\ (pending \ pending') \cap mask = {}
              /\ can_accept_signal
              /\ mutex = "worker"
        /\ /\ wpc = "kill_cs" /\ wpc' # "kill_cs"
           /\ winfo.si_signo \notin pending
           /\ winfo.si_signo \in mask \/ ~can_accept_signal
           => /\ pending' = pending \cup {winfo.si_signo}
              /\ info' = [info EXCEPT ![winfo.si_signo] = winfo]
              /\ wpc' = "leave"
              /\ UNCHANGED <<actions, mask, current_siginfo, can_accept_signal, sigevent,
                             pipe, suspended, ctx_signal, exited>>
      ]_vars

\* C2 witness: the worker has just recorded a request for an unmasked signal
\* as pending, because a delivery is under way.
C2_Witness ==
    /\ wpc = "leave" /\ wpacket.type = SIGNAL_PACKET_KILL
    /\ ~can_accept_signal
    /\ winfo.si_signo \in pending \ mask
    /\ info[winfo.si_signo] = winfo

\* C3: first-wins coalescing: a KILL packet for a signal that is already
\* pending is dropped, leaving pending, mask, can_accept_signal and info
\* unchanged; while a signal stays pending its recorded siginfo never changes.
C3_FirstWins ==
    [][ /\ wpc = "kill_cs" /\ wpc' # "kill_cs" /\ winfo.si_signo \in pending
           => /\ UNCHANGED <<pending, mask, can_accept_signal, info>>
              /\ wpc' = "leave"
        /\ \A s \in pending \cap pending' : info'[s] = info[s]
      ]_vars

\* C3 witness: the worker has just dropped a request whose siginfo differs
\* from the one recorded for the pending signal.
C3_Witness ==
    /\ wpc = "leave" /\ wpacket.type = SIGNAL_PACKET_KILL
    /\ winfo.si_signo \in pending
    /\ info[winfo.si_signo] # winfo

\* C4: rt_sigaction for SIGKILL or SIGSTOP returns -EINVAL and leaves the
\* action table unchanged; the two entries keep their initial value.
C4_KillStopUnmodifiable ==
    /\ [](actions[SIGKILL] = NullAct /\ actions[SIGSTOP] = NullAct)
    /\ [][ /\ ret' # ret
           /\ ret'.call = "rt_sigaction"
           /\ ret'.arg \in {SIGKILL, SIGSTOP}
           => ret'.val = -EINVAL /\ actions' = actions ]_vars

\* C4 witness: rt_sigaction(SIGKILL) has returned -EINVAL after the table has
\* been changed for another signal.
C4_Witness ==
    /\ ret.call = "rt_sigaction" /\ ret.arg = SIGKILL /\ ret.val = -EINVAL
    /\ actions[SIGUSR1] # NullAct

\* The step in which rt_sigprocmask(SIG_SETMASK, m) leaves its critical
\* section and returns.
SetmaskReturns ==
    /\ mpc = "cs" /\ margs.call = "rt_sigprocmask"
    /\ margs.args[1] = SIG_SETMASK /\ margs.args[2].ptr = "valid"
    /\ mpc' = "guest"

C6_Sigreturn ==
    [][ /\ mpc = "cs" /\ margs.call = "rt_sigreturn" /\ mpc' = "guest"
           => /\ mutex = "main"
              /\ mask' = Head(frames).uc_sigmask
              /\ pending' = pending
              /\ pipe' = IF pending \ mask' # {} THEN Append(pipe, DeliverPacket) ELSE pipe
              /\ frames' = Tail(frames)
        /\ ret' # ret /\ ret'.call = "rt_sigreturn" /\ ret'.val = -EFAULT
           => UNCHANGED <<mask, pending, pipe, frames, mutex>>
      ]_vars

\* C6 witness: rt_sigreturn has just returned to the guest, the restored mask
\* differs from the handler's and unblocks a pending signal, and the DELIVER
\* packet is at the tail of the pipe.
C6_Witness ==
    /\ mpc = "guest"
    /\ ret.call = "rt_sigreturn" /\ ret.val = 0
    /\ pending \ mask # {}
    /\ pipe # <<>> /\ pipe[Len(pipe)] = DeliverPacket

\* C7: signal_kill for another pid returns -ESRCH and sends nothing; for the
\* current process it sends one KILL packet carrying info and returns 0.
C7_SignalKill ==
    [][ ret' # ret /\ ret'.call = "signal_kill"
        => IF ret'.arg[1] = SelfPid
           THEN /\ ret'.val = 0
                /\ pipe' = Append(pipe, KillPacket(ret'.arg[2]))
           ELSE /\ ret'.val = -ESRCH
                /\ UNCHANGED <<pipe, sigdata>> ]_vars

\* C7 witness: signal_kill for another pid has returned -ESRCH while the worker
\* is idle with an empty pipe.
C7_Witness ==
    /\ ret.call = "signal_kill" /\ ret.arg[1] = OtherPid /\ ret.val = -ESRCH
    /\ pipe = <<>> /\ wpc = "wait"

\* The order of the states of a child's death pipe.
ChildRank(st) ==
    CASE st = "none" -> 0
      [] st = "unwatched" -> 1
      [] st = "watched" -> 2
      [] st = "dead" -> 2
      [] st = "completed" -> 3
      [] st = "handling" -> 4
      [] st = "terminated" -> 5

\* C8: each terminated child causes one SIGCHLD request, handled by the rule
\* of a KILL packet, and one increment of the child-wait semaphore, also when
\* the request is dropped: the semaphore counts the terminated children.
C8_ChildDeath ==
    /\ [](process_wait_semaphore =
             Cardinality({c \in Children : children[c] = "terminated"}))
    /\ [][ /\ \A c \in Children :
                children'[c] # children[c]
                => /\ ChildRank(children'[c]) > ChildRank(children[c])
                   /\ children'[c] = "terminated" => children[c] = "handling"
                   /\ children[c] = "handling"
                      => /\ children'[c] = "terminated"
                         /\ process_wait_semaphore' = process_wait_semaphore + 1
           /\ wpc = "kill_cs" /\ wpc' # "kill_cs" /\ wproc # 0
              => /\ winfo.si_signo = SIGCHLD
                 /\ children[wproc] = "handling"
                 /\ IF SIGCHLD \in pending
                    THEN UNCHANGED <<pending, info, can_accept_signal>> /\ wpc' = "leave"
                    ELSE IF SIGCHLD \in mask \/ ~can_accept_signal
                    THEN pending' = pending \cup {SIGCHLD} /\ wpc' = "leave"
                    ELSE pending' = pending /\ wpc' = "d_suspend"
         ]_vars

\* C8 witness: two children have terminated while SIGCHLD was blocked and no
\* handler ran, so the second request was dropped; the semaphore is 2.
C8_Witness ==
    /\ process_wait_semaphore = 2
    /\ SIGCHLD \in mask /\ pending = {SIGCHLD}
    /\ invoked[SIGCHLD] = 0 /\ frames = <<>> /\ ~ctx_signal /\ can_accept_signal

\* C9: the worker terminates when it dequeues a SHUTDOWN packet; packets sent
\* after it are never taken from the pipe, no signal state changes after the
\* worker has exited, and signal_shutdown returns only then.
C9_Shutdown ==
    [][ /\ /\ wpc = "wait" /\ pipe # <<>>
           /\ Head(pipe).type = SIGNAL_PACKET_SHUTDOWN
           /\ pipe' = Tail(pipe)
           => wpc' = "exited"
        /\ wpc = "exited"
           => /\ wpc' = "exited"
              /\ Len(pipe') >= Len(pipe)
              /\ SubSeq(pipe', 1, Len(pipe)) = pipe
              /\ UNCHANGED <<actions, mask, pending, info, current_siginfo,
                             can_accept_signal, sigevent, process_wait_semaphore,
                             suspended, ctx_signal, children, frames, invoked>>
        /\ mpc # "done" /\ mpc' = "done" => wpc = "exited"
      ]_vars

\* C9 witness: signal_shutdown has returned and packets sent after the
\* SHUTDOWN packet are still in the pipe.
C9_Witness ==
    /\ mpc = "done" /\ wpc = "exited"
    /\ pipe # <<>>

\* The number of descriptor slots that hold file f.
SlotsHolding(f) == Cardinality({i \in Fds : fds[i] = f})

\* C10: after any sequence of vfs_store_file, close, dup/dup2/dup3, vfs_ref,
\* vfs_release, pipe2, open and vfs_reset, the reference count of every file
\* is the number of descriptor slots holding it plus the number of references
\* held by kernel callers (from vfs_ref or vfs_open) and not yet released.
C10_RefcountInvariant ==
    \A f \in Files : ref[f] = SlotsHolding(f) + borrows[f]

\* C10 witness: a file allocated after start-up sits in two slots and is also
\* borrowed, while another file has been closed for good.
C10_Witness ==
    \E f \in Files \ {console_in, console_out}, g \in Files :
        /\ SlotsHolding(f) = 2 /\ borrows[f] = 1 /\ ref[f] = 3
        /\ closes[g] = 1 /\ ref[g] = 0

\* C11: the close operation of a file runs once, in the call whose release
\* takes its reference count to zero (close, a dup2 replacement, vfs_reset,
\* vfs_shutdown, vfs_release, or the failure path of the call that allocated
\* it); it runs in no other call, and no descriptor slot holds a closed file.
C11_CloseOnce ==
    /\ [](\A f \in Files :
            /\ closes[f] <= 1
            /\ closes[f] = 1 => ref[f] = 0 /\ SlotsHolding(f) = 0)
    /\ [][\A f \in Files :
            /\ closes'[f] # closes[f] =>
                  /\ closes'[f] = closes[f] + 1
                  /\ ref'[f] = 0
                  /\ ref[f] > 0 \/ f \in Unused(VfsState)
                  /\ \A i \in Fds : fds'[i] # f
            /\ ref[f] > 0 /\ ref'[f] = 0 => closes'[f] = closes[f] + 1
            /\ ref'[f] > 0 => closes'[f] = closes[f]]_vars

\* C11 witness: vfs_shutdown has closed both console files, one of which sat
\* in two slots, and a file opened later had been closed before.
C11_Witness ==
    /\ ~vfs_mapped
    /\ closes[console_in] = 1 /\ closes[console_out] = 1
    /\ \E f \in Files \ {console_in, console_out} : closes[f] = 1

\* The step is the call named call, recorded with its arguments and result.
VfsReturns(call) == vlast'.call = call /\ vcalls' = vcalls + 1
\* The empty slots of the table.
EmptySlots == {i \in Fds : fds[i] = NULL}

\* C12: vfs_store_file(f, cloexec) with an empty slot returns the lowest empty
\* index, puts f there with the cloexec argument as the slot's flag, and
\* changes no other slot, no other flag and no reference count; with the
\* table full it returns -EMFILE and changes nothing.
C12_StoreFile ==
    [][VfsReturns("vfs_store_file") =>
         LET f == vlast'.args[1]
             cloexec == vlast'.args[2]
             r == vlast'.r IN
         /\ ref' = ref /\ closes' = closes
         /\ IF EmptySlots = {}
            THEN r = -EMFILE /\ fds' = fds /\ fds_cloexec' = fds_cloexec
            ELSE /\ r \in EmptySlots /\ \A i \in EmptySlots : r <= i
                 /\ fds' = [fds EXCEPT ![r] = f]
                 /\ fds_cloexec' = [fds_cloexec EXCEPT ![r] = cloexec]]_vars

\* C12 witness: with slots 0 and 2 empty, a file with cloexec 1 was stored
\* in slot 0, slot 2 is still empty and slot 1 kept its flag.
C12_Witness ==
    /\ vlast.call = "vfs_store_file" /\ vlast.r = 0 /\ vlast.args[2] = 1
    /\ fds[0] = vlast.args[1] /\ fds_cloexec[0] = 1
    /\ fds[1] # NULL /\ fds_cloexec[1] = 0 /\ fds[2] = NULL

\* The step is dup2 or dup3 on an open descriptor with an explicit newfd.
Dup2Returns ==
    /\ VfsReturns("dup2") \/ VfsReturns("dup3")
    /\ vlast'.args[1] \in Fds /\ fds[vlast'.args[1]] # NULL
    /\ vlast'.args[2] # -1
\* What newfd held before the call.
Occupant(newfd) == IF newfd \in Fds THEN fds[newfd] ELSE NULL
\* The call was rejected and changed nothing.
Dup2Rejected ==
    /\ vlast'.r = -EINVAL
    /\ fds' = fds /\ fds_cloexec' = fds_cloexec /\ ref' = ref /\ closes' = closes

\* C13 as stated: whenever newfd is a valid index other than fd, the count of
\* fd's file ends one higher and the count of the file newfd held one lower.
C13_Original ==
    [][Dup2Returns =>
         LET fd == vlast'.args[1]
             newfd == vlast'.args[2]
             f == fds[fd]
             old == Occupant(newfd) IN
         IF newfd = fd \/ newfd \notin Fds THEN Dup2Rejected
         ELSE /\ vlast'.r = newfd
              /\ fds'[newfd] = f /\ fds'[fd] = f
              /\ ref'[f] = ref[f] + 1
              /\ old # NULL =>
                    /\ ref'[old] = ref[old] - 1
                    /\ closes'[old] = closes[old] + (IF ref[old] = 1 THEN 1 ELSE 0)]_vars

\* C13: dup2/dup3(fd, newfd) with fd open and newfd explicit is rejected
\* with -EINVAL and no change when newfd = fd or newfd is not an index of the
\* table; otherwise it returns newfd and slot newfd holds fd's file.  If newfd
\* held another file, that file lost one reference (and was closed if it was
\* the last) and fd's file gained one; if newfd was empty, fd's file gained
\* one; if newfd already held fd's file, its count is what it was.  No other
\* slot and no other file's count changes.
C13_Dup2 ==
    [][Dup2Returns =>
         LET fd == vlast'.args[1]
             newfd == vlast'.args[2]
             f == fds[fd]
             old == Occupant(newfd) IN
         IF newfd = fd \/ newfd \notin Fds THEN Dup2Rejected
         ELSE /\ vlast'.r = newfd
              /\ fds' = [fds EXCEPT ![newfd] = f]
              /\ ref'[f] = IF old = f THEN ref[f] ELSE ref[f] + 1
              /\ old # NULL /\ old # f =>
                    /\ ref'[old] = ref[old] - 1
                    /\ closes'[old] = closes[old] + (IF ref[old] = 1 THEN 1 ELSE 0)
              /\ \A g \in Files \ {f, old} : ref'[g] = ref[g] /\ closes'[g] = closes[g]
              /\ closes'[f] = closes[f]]_vars

\* C13 witness: from the table of vfs_init, dup2(1, 0) replaced the only
\* descriptor of console_in, which was closed, and console_out is now in all
\* three slots with three references.
C13_Witness ==
    /\ vlast = [call |-> "dup2", args |-> <<1, 0>>, r |-> 0] /\ vcalls = 1
    /\ closes[console_in] = 1 /\ ref[console_in] = 0
    /\ \A i \in 0 .. 2 : fds[i] = console_out
    /\ ref[console_out] = 3

\* C14: the close-on-exec flag is the slot's.  A slot made by dup, dup2 or
\* dup3 has the flag iff O_CLOEXEC was in the flags of the call (never for dup
\* and dup2), whatever the flag of the source slot; F_SETFD sets the flag of
\* slot fd from FD_CLOEXEC in arg and changes no other slot's flag, also not
\* of slots holding the same file; F_GETFD returns FD_CLOEXEC iff the flag of
\* slot fd is set, and changes nothing; close(fd) clears the flag of slot fd.
C14_CloexecPerSlot ==
    [][LET a == vlast'.args
           r == vlast'.r
           OnlyFlag(i, v) == fds_cloexec' = [fds_cloexec EXCEPT ![i] = v] IN
       /\ (VfsReturns("dup") \/ VfsReturns("dup2")) /\ r >= 0 => OnlyFlag(r, 0)
       /\ VfsReturns("dup3") /\ r >= 0 => OnlyFlag(r, a[3])
       /\ VfsReturns("fcntl") /\ a[2] = F_SETFD /\ fds[a[1]] # NULL =>
             /\ r = 0 /\ fds' = fds /\ ref' = ref
             /\ OnlyFlag(a[1], IF a[3] = FD_CLOEXEC THEN 1 ELSE 0)
       /\ VfsReturns("fcntl") /\ a[2] = F_GETFD /\ fds[a[1]] # NULL =>
             /\ r = (IF fds_cloexec[a[1]] = 1 THEN FD_CLOEXEC ELSE 0)
             /\ fds_cloexec[a[1]] \in {0, 1}
             /\ fds' = fds /\ fds_cloexec' = fds_cloexec /\ ref' = ref
       /\ VfsReturns("close") /\ r = 0 => OnlyFlag(a[1], 0)]_vars

\* C14 witness: F_SETFD has set the flag of one slot, and another slot that
\* holds the same file has its flag clear.
C14_Witness ==
    /\ vlast.call = "fcntl" /\ vlast.args[2] = F_SETFD /\ vlast.args[3] = FD_CLOEXEC
    /\ vlast.r = 0 /\ fds_cloexec[vlast.args[1]] = 1
    /\ \E j \in Fds \ {vlast.args[1]} :
          fds[j] = fds[vlast.args[1]] /\ fds_cloexec[j] = 0

\* The slots vfs_reset has to close.
CloexecSlots == {i \in Fds : fds[i] # NULL /\ fds_cloexec[i] # 0}
\* The slots of that kind that hold file f.
CloexecSlotsOf(f) == Cardinality({i \in CloexecSlots : fds[i] = f})

\* C15 as stated: vfs_reset leaves unchanged every slot that it does not
\* close, and the reference count of the file in such a slot.
C15_Original ==
    [][VfsReturns("vfs_reset") =>
         \A i \in Fds \ CloexecSlots :
            /\ fds'[i] = fds[i] /\ fds_cloexec'[i] = fds_cloexec[i]
            /\ fds[i] # NULL => ref'[fds[i]] = ref[fds[i]]]_vars

\* C15: vfs_reset empties exactly the occupied slots whose cloexec flag is
\* set and clears their flags, so that vfs_get on them returns NULL; every
\* file loses one reference per slot closed and is closed when none is left;
\* every other slot keeps its file and its flag, and a file in no closed slot
\* keeps its count; umask becomes the default.  A descriptor returned by open
\* with O_CLOEXEC has its flag set, so F_GETFD reports FD_CLOEXEC for it.
C15_ResetOnExec ==
    [][/\ VfsReturns("vfs_reset") =>
            /\ \A i \in CloexecSlots :
                  fds'[i] = NULL /\ fds_cloexec'[i] = 0 /\ vfs_get(VfsState', i) = NULL
            /\ \A i \in Fds \ CloexecSlots :
                  fds'[i] = fds[i] /\ fds_cloexec'[i] = fds_cloexec[i]
            /\ \A f \in Files :
                  /\ ref'[f] = ref[f] - CloexecSlotsOf(f)
                  /\ closes'[f] = closes[f] +
                        (IF CloexecSlotsOf(f) > 0 /\ ref'[f] = 0 THEN 1 ELSE 0)
            /\ umask' = DefaultUmask
       /\ VfsReturns("open") /\ vlast'.r >= 0 =>
            /\ fds_cloexec'[vlast'.r] = vlast'.args[2]
            /\ sys_fcntl(VfsState', vlast'.r, F_GETFD, 0).r =
                  (IF vlast'.args[2] = 1 THEN FD_CLOEXEC ELSE 0)]_vars

\* C15 witness: vfs_reset has closed the descriptor that open with O_CLOEXEC
\* returned, so that its file is closed, while a descriptor without the flag
\* is still open.
C15_Witness ==
    /\ vlast.call = "vfs_reset" /\ vcalls = 2
    /\ \E f \in Files \ {console_in, console_out} : closes[f] = 1 /\ ref[f] = 0
    /\ \E i \in Fds : fds[i] # NULL
    /\ EmptySlots # {} /\ umask = DefaultUmask

\* C16 as stated: a path p that normalize_path returned is a fixed point of
\* normalize("/", .), and normalising it once more changes nothing.
C16_Idempotent ==
    /\ Len(outs) >= 2 => outs[2] = outs[1]
    /\ Len(outs) >= 3 => outs[3] = outs[2]

\* C17 as stated: whatever the absolute base and the input, the output starts
\* with "/", and normalize("/", "..") is "/".
C17_RootClamped ==
    Len(outs) >= 1 =>
        /\ outs[1] # <<>> /\ outs[1][1] = "/"
        /\ cwd = Root /\ path_in = <<".", ".">> => outs[1] = Root

\* The component of path o that starts at o[k] is str.
ComponentAt(o, k, str) ==
    /\ k = 1 \/ o[k - 1] = "/"
    /\ k + Len(str) - 1 <= Len(o)
    /\ \A j \in 1 .. Len(str) : o[k + j - 1] = str[j]
    /\ k + Len(str) - 1 = Len(o) \/ o[k + Len(str)] = "/"
\* No empty component, no "." but at the end, no "..", no "/" at the end of
\* a path other than "/".
WellFormed(o) ==
    /\ \A k \in 1 .. Len(o) - 1 : ~(o[k] = "/" /\ o[k + 1] = "/")
    /\ \A k \in 1 .. Len(o) : ComponentAt(o, k, <<".">>) => k = Len(o)
    /\ \A k \in 1 .. Len(o) : ~ComponentAt(o, k, <<".", ".">>)
    /\ o = Root \/ o = <<>> \/ o[Len(o)] # "/"

\* C18 as stated: for a normalised absolute base the output is well formed,
\* and the two examples give "/a/c/d" and "/x/y/.".
C18_WellFormedOutput ==
    Len(outs) >= 1 =>
        /\ cwd[1] = "/" /\ WellFormed(cwd) => WellFormed(outs[1])
        /\ cwd = <<"/", "a", "/", "b">> => outs[1] = <<"/", "a", "/", "c", "/", "d">>
        /\ cwd = <<"/", "x", "/">> => outs[1] = <<"/", "x", "/", "y", "/", ".">>

\* The number of symlinks, up to fuel, on the chain that starts at the file pth.
RECURSIVE LeafChain(_, _)
LeafChain(pth, fuel) ==
    IF fuel = 0 \/ pth \notin DOMAIN Links THEN 0
    ELSE 1 + LeafChain(CString(normalize_path(Dirname(pth), Links[pth]).buf, 1), fuel - 1)
FsCalls(op) == {i \in 1 .. Len(vopen.trace) : vopen.trace[i].op = op}

\* C19: vfs_open never follows more than MAX_SYMLINK_LEVEL symlinks, and when
\* it has followed that many it returns -ELOOP; so does every open of a file
\* at the head of a chain of more than MAX_SYMLINK_LEVEL symlinks.  With /a a
\* symlink to /a, open("/a") returns -ELOOP after exactly MAX_SYMLINK_LEVEL
\* calls of the file system's open, all on "a".
C19_SymlinkLoop ==
    /\ vopen.level <= MAX_SYMLINK_LEVEL
    /\ vopen.pc = "done" =>
        /\ vopen.level = MAX_SYMLINK_LEVEL <=> vopen.ret = -ELOOP
        /\ LeafChain(path_in, MAX_SYMLINK_LEVEL + 1) > MAX_SYMLINK_LEVEL
                => vopen.ret = -ELOOP
        /\ path_in = Slash("a") =>
            /\ vopen.ret = -ELOOP
            /\ Len(vopen.trace) = MAX_SYMLINK_LEVEL
            /\ \A i \in 1 .. Len(vopen.trace) :
                  vopen.trace[i] = [op |-> "open", arg |-> <<"a">>]

\* open("/a") has returned -ELOOP.
C19_Witness ==
    /\ vopen.pc = "done" /\ path_in = Slash("a")
    /\ vopen.ret = -ELOOP
    /\ Cardinality(FsCalls("open")) = MAX_SYMLINK_LEVEL

\* The places of subpath where resolve_symlink cuts it, and the i-th from the
\* right.
Cuts(subpath) == {k \in 2 .. Len(subpath) : subpath[k] = "/"}
CutFromRight(subpath, i) ==
    CHOOSE k \in Cuts(subpath) : Cardinality({j \in Cuts(subpath) : j > k}) = i - 1

\* C20: in an iteration of vfs_open whose open returned -ENOENT, the readlink
\* calls are on the prefixes of subpath that end before a '/', from the
\* longest to the shortest, each after the one before returned -ENOENT; when
\* the last of them finds a symlink, the next iteration runs on the normalised
\* path with the target in place of the symlink's name, else vfs_open returns
\* -ENOENT.  With /link a symlink to /real and /real/file a file,
\* open("/link/file") returns 0 after open on "link/file", readlink on "link"
\* and open on "real/file", and its path is then "/real/file".
C20_ComponentSymlink ==
    [][ LET fnd == find_filesystem(vopen.path)
            subpath == fnd.subpath
            before == Len(vopen.trace) + 1
            probes == SubSeq(vopen'.trace, before + 1, Len(vopen'.trace))
            n == Len(probes)
            k == CutFromRight(subpath, n)
            rl == FsReadlink(probes[n].arg) IN
        /\ vopen.pc = "loop" /\ vopen.level < MAX_SYMLINK_LEVEL /\ fnd.found
           /\ FsOpen(IF subpath = <<>> THEN <<".">> ELSE subpath).r = -ENOENT
           =>
            /\ n <= Cardinality(Cuts(subpath))
            /\ \A i \in 1 .. n :
                  /\ probes[i] = [op |-> "readlink",
                                  arg |-> SubSeq(subpath, 1, CutFromRight(subpath, i) - 1)]
                  /\ i < n => FsReadlink(probes[i].arg).r = -ENOENT
            /\ IF n > 0 /\ rl.r >= 0
               THEN /\ vopen'.pc = "loop"
                    /\ vopen'.level = vopen.level + 1
                    /\ vopen'.path \in PathOutputs(normalize_path(
                          Dirname(Root \o probes[n].arg),
                          rl.target \o <<"/">> \o SubSeq(subpath, k + 1, Len(subpath))))
               ELSE /\ vopen'.pc = "done" /\ vopen'.ret = -ENOENT
                    /\ n = Cardinality(Cuts(subpath)) \/ rl.r # -ENOENT
        /\ vopen'.pc = "done" /\ path_in = Slash("link") \o Slash("file") =>
            /\ vopen'.ret = 0
            /\ vopen'.path = Slash("real") \o Slash("file")
            /\ vopen'.trace = << [op |-> "open", arg |-> <<"link", "/", "file">>],
                                 [op |-> "readlink", arg |-> <<"link">>],
                                 [op |-> "open", arg |-> <<"real", "/", "file">>] >>
      ]_vars

\* open("/link/file") has returned 0 after one readlink.
C20_Witness ==
    /\ vopen.pc = "done" /\ path_in = Slash("link") \o Slash("file")
    /\ vopen.ret = 0
    /\ Cardinality(FsCalls("readlink")) = 1

\* C21 as stated: an operation the file system does not provide is never
\* called, and the syscall then ends as it does when the operation returns
\* -ENOENT all along: with -ENOENT, or with -ELOOP after too many symlinks
\* (-EFAULT and -EPERM are returned before a file system is selected).
C21_AbsentIsNotFound ==
    LET fs == mounts[1] IN
    /\ vopen.pc # "fault"
    /\ \A i \in 1 .. Len(vopen.trace) : vopen.trace[i].op \in fs.ops
    /\ vopen.pc = "done" /\ vopen.op \notin fs.ops /\ vopen.ret \notin {-EFAULT, -EPERM}
            => vopen.ret \in {-ENOENT, -ELOOP}

\* C22 as stated, for the syscalls that take a pathname: when a pointer given
\* to the syscall is not valid, the syscall returns -EFAULT, and it has not
\* read through the pointer nor called the file system.  (statfs64 with a
\* wrong sz returns -EINVAL before the memory manager is asked.)
C22_EfaultFirst ==
    vopen.pc # "idle" /\ ~vopen.ptrs =>
        \/ vopen.pc = "done" /\ vopen.ret = -EFAULT /\ vopen.trace = <<>>
        \/ vopen.pc = "done" /\ vopen.op = "statfs64" /\ vopen.ret = -EINVAL
                /\ vopen.trace = <<>>

\* C23 as stated: the d_reclen a fill callback writes is a multiple of 8 and
\* is at least the number of bytes of the record.
C23_ReclenAligned ==
    dent.pc = "done" =>
        /\ dent.d_reclen % 8 = 0
        /\ dent.d_reclen >= RecordBytes(dent)

\* A delivery is between the worker's decision and the end of
\* signal_setup_handler.
Delivering ==
    \/ wpc \in {"d_suspend", "d_getcontext", "d_siginfo", "d_setevent", "d_setcontext",
                "d_resume"}
    \/ ctx_signal
    \/ margs.call = "setup"

C25_WritesUnderMutex ==
    [][/\ (\/ mask' # mask
           \/ pending' # pending
           \/ can_accept_signal' # can_accept_signal)
          => \/ mutex = "worker" /\ wpc' # wpc /\ mpc' = mpc
             \/ mutex = "main" /\ mpc' # mpc /\ wpc' = wpc
       /\ ~unlocked_write']_vars

\* rt_sigsuspend has replaced and restored the mask, the worker has recorded
\* a signal and started a delivery, and the death of a child was handled.
C25_Witness ==
    /\ ret.call = "rt_sigsuspend" /\ ret.val = -EINTR
    /\ pending # {}
    /\ \E c \in Children : children[c] = "terminated"

\* The positions of the worker in the context rewriting of signal_deliver, in
\* the order of the code.
DeliverOrder ==
    <<"d_suspend", "d_getcontext", "d_siginfo", "d_setevent", "d_setcontext",
      "d_resume", "leave">>

\* C26: the context of the main thread is rewritten only by the worker and
\* only while the main thread is suspended; in each delivery the worker
\* suspends the main thread, gets its context and has it rewritten, stores
\* current_siginfo, sets the signal-ready event, sets the context and resumes
\* the main thread, in this order; and the main thread takes no step between
\* the suspend and the resume.
C26_RewriteWhileSuspended ==
    [][/\ \A k \in 1 .. 6 :
             wpc = DeliverOrder[k] /\ wpc' # wpc => wpc' = DeliverOrder[k + 1]
       /\ suspended' # suspended
             => IF suspended' THEN wpc = "d_suspend" ELSE wpc = "d_resume"
       /\ wctx' # wctx
             => /\ suspended /\ suspended'
                /\ IF wctx' THEN wpc = "d_getcontext" ELSE wpc = "d_setcontext"
       /\ current_siginfo' # current_siginfo
             => suspended /\ suspended' /\ wpc = "d_siginfo" /\ wctx
       /\ sigevent' /\ ~sigevent
             => suspended /\ suspended' /\ wpc = "d_setevent"
       /\ ctx_signal' /\ ~ctx_signal
             => suspended /\ suspended' /\ wpc = "d_setcontext" /\ sigevent
       /\ suspended /\ ~suspended' => ctx_signal
       /\ suspended
             => /\ UNCHANGED <<mpc, margs, frame, frames, ret>>
                /\ UNCHANGED <<actions, mask, pending, can_accept_signal, mutex>>]_vars

\* The worker has set the rewritten context of the main thread, which was
\* suspended on its way into a syscall, and is about to resume it.
C26_Witness ==
    /\ suspended /\ wpc = "d_resume" /\ ctx_signal
    /\ mpc = "enter"

\* C27: signal_setup_handler for signal s, holding the mutex, pushes a frame
\* whose uc_sigmask is the mask m of that moment, sets the mask to m with
\* sa_mask(s) and s added, sets can_accept_signal and clears the signal-ready
\* event; the frames already on the stack are never changed, so rt_sigreturn
\* on that frame, whatever the mask has become meanwhile, sets the mask to m.
C27_MaskRoundTrip ==
    [][/\ mpc = "cs" /\ margs.call = "setup" /\ mpc' = "guest"
          => /\ mutex = "main"
             /\ Len(frames') = Len(frames) + 1
             /\ Tail(frames') = frames
             /\ Head(frames').sig = frame.sig
             /\ Head(frames').uc_sigmask = mask
             /\ mask' = mask \cup actions[frame.sig].sa_mask \cup {frame.sig}
             /\ can_accept_signal'
             /\ ~sigevent'
       /\ mpc = "cs" /\ margs.call = "rt_sigreturn" /\ mpc' = "guest"
          => /\ mutex = "main"
             /\ frames # <<>>
             /\ mask' = Head(frames).uc_sigmask
             /\ frames' = Tail(frames)
       /\ frames' # frames
          => \/ mpc = "cs" /\ margs.call = "setup" /\ mpc' = "guest"
             \/ mpc = "cs" /\ margs.call = "rt_sigreturn" /\ mpc' = "guest"]_vars

\* The handler of SIGUSR1 was set up with the mask m = {SIGCHLD}, ran with
\* SIGUSR1 added to it, and rt_sigreturn has put m back.
C27_Witness ==
    /\ mpc = "guest" /\ frames = <<>>
    /\ ret.call = "rt_sigreturn" /\ ret.val = 0
    /\ mask = {SIGCHLD}
    /\ invoked[SIGUSR1] = 1

\* C28: signal_setup_handler reads the delivered signal's entry of the action
\* table only while the main thread holds the mutex: the step that starts the
\* frame with sa_restorer, and the step that uses sa_mask and sa_handler, are
\* both made with the mutex held by the main thread.
C28_ReadsUnderMutex ==
    [][(\/ frame = NoFrame /\ frame' # NoFrame
        \/ mpc = "cs" /\ margs.call = "setup" /\ mpc' = "guest")
          => mutex = "main"]_vars

Max(S) == CHOOSE x \in S : \A y \in S : y <= x
\* m is a prefix of the string pth, character by character.
IsPrefix(m, pth) == Len(m) <= Len(pth) /\ \A i \in 1 .. Len(m) : pth[i] = m[i]
\* pth without its first n characters, and without one '/' after them.
Stripped(pth, n) ==
    LET rest == [i \in 1 .. Len(pth) - n |-> pth[n + i]] IN
    IF rest # <<>> /\ rest[1] = "/" THEN Tail(rest) ELSE rest
\* The file systems, by their place in the order of insertion, whose mount
\* point is a prefix of pth.
PrefixMounts(pth) ==
    {i \in 1 .. Len(lookup.added) : IsPrefix(lookup.added[i].mountpoint, pth)}
\* A call of find_filesystem that has found the file system added as number k.
Found(k) ==
    /\ lookup'.found
    /\ lookup'.fs = lookup.added[k]
    /\ lookup'.subpath = Stripped(lookup'.path, Len(lookup.added[k].mountpoint))

\* C29 as stated: find_filesystem returns the earliest-inserted file system
\* whose mount point is a prefix of the path, with the mount point and one
\* '/' stripped from the path, and not-found only if there is none.
C29_Original ==
    [][mounts' = mounts /\ lookup' # lookup
          => LET hits == PrefixMounts(lookup'.path) IN
             IF hits = {} THEN ~lookup'.found ELSE Found(Min(hits))]_vars

\* C29 amended: vfs_add puts a file system in front of the list, so
\* find_filesystem returns the latest-inserted file system whose mount point
\* is a literal prefix of the path, with the mount point and one '/' stripped
\* from the path, and not-found only if no mount point is a prefix.
C29_LatestFirst ==
    [][mounts' = mounts /\ lookup' # lookup
          => LET hits == PrefixMounts(lookup'.path) IN
             IF hits = {} THEN ~lookup'.found ELSE Found(Max(hits))]_vars

\* devfs was added after winfs, and /dev/a was found in devfs as a, although
\* the mount point of winfs is a prefix of it too.
C29_Witness ==
    /\ lookup.added = <<winfs_alloc, devfs_alloc>>
    /\ lookup.path = <<"/", "dev", "/", "a">>
    /\ lookup.found /\ lookup.fs = devfs_alloc /\ lookup.subpath = <<"a">>

\* The symlink hops of a vfs_open: the calls of open that reported a symlink,
\* and the probes with readlink that found one.
LeafHops == {i \in FsCalls("open") : FsOpen(vopen.trace[i].arg).r = 1}
ComponentHops == {i \in FsCalls("readlink") : FsReadlink(vopen.trace[i].arg).r >= 0}

\* C30: a vfs_open that has returned 0 after k symlink hops, those reported
\* by open and those found by probing together, has k <= MAX_SYMLINK_LEVEL
\* and has called the file system's open at most k + 1 times.
C30_OpenCalls ==
    vopen.pc = "done" /\ vopen.op = "open" /\ vopen.ret = 0
        => LET k == Cardinality(LeafHops) + Cardinality(ComponentHops) IN
           /\ k <= MAX_SYMLINK_LEVEL
           /\ Cardinality(FsCalls("open")) <= k + 1

\* open("/link/rel") has returned 0 after two hops, the component /link found
\* by probing and the leaf /real/rel reported by open, and three calls of open.
C30_Witness ==
    /\ vopen.pc = "done" /\ vopen.op = "open" /\ vopen.ret = 0
    /\ path_in = Slash("link") \o Slash("rel")
    /\ Cardinality(LeafHops) = 1 /\ Cardinality(ComponentHops) = 1
    /\ Cardinality(FsCalls("open")) = 3

\* The calls of the file system made in a step, and what the file system
\* answers to the operation of the syscall.
NewCalls == SubSeq(vopen'.trace, Len(vopen.trace) + 1, Len(vopen'.trace))
OpResult(op, arg) == IF op = "open" THEN FsOpen(arg).r ELSE FsCall(op, arg)

C32_PacketFifo ==
    [][pipe' # pipe \/ wpacket' # wpacket
          => \/ /\ Len(pipe') = Len(pipe) + 1
                /\ SubSeq(pipe', 1, Len(pipe)) = pipe
                /\ wpacket' = wpacket /\ wpc' = wpc
             \/ /\ pipe # <<>> /\ wpc = "wait" /\ wpacket = NoPacket
                /\ wpacket' = Head(pipe) /\ pipe' = Tail(pipe)
                /\ wpc' # "wait"
             \/ /\ pipe' = pipe /\ wpc # "wait"
                /\ wpacket' = NoPacket /\ wpc' = "wait"]_vars

\* The worker is handling a KILL packet while two KILL packets for different
\* signals wait in the pipe.
C32_Witness ==
    /\ wpacket.type = SIGNAL_PACKET_KILL /\ wpc = "kill_cs"
    /\ Len(pipe) = 2
    /\ pipe[1].type = SIGNAL_PACKET_KILL /\ pipe[2].type = SIGNAL_PACKET_KILL
    /\ pipe[1].info.si_signo # pipe[2].info.si_signo

\* C33 as stated: when sys_link or sys_rename has returned, whatever it
\* returns, it holds no reference on the file that vfs_open(oldpath) gave it.
C33_ReferenceReleased ==
    vopen.pc = "done" /\ vopen.op \in {"link", "rename"} => vopen.ref = 0

\* A signal with a custom handler is pending and not in the mask that
\* rt_sigsuspend, in its first critical section, is about to set.
SuspendWithPending ==
    /\ mpc = "cs" /\ margs.call = "rt_sigsuspend"
    /\ \E s \in pending \ margs.args[1].val :
          actions[s].sa_handler \notin {SIG_DFL, SIG_IGN}

\* C34 as stated: rt_sigsuspend(m) called with such a signal pending
\* eventually returns -EINTR, and when rt_sigsuspend returns -EINTR the mask
\* is the one that was in force before the call.
C34_SuspendReturns ==
    /\ SuspendWithPending
          ~> (mpc = "guest" /\ ret.call = "rt_sigsuspend" /\ ret.val = -EINTR)
    /\ [][mpc = "cs" /\ margs.call = "rt_sigsuspend_restore" /\ mpc' = "guest"
             => mask' = margs.args[1]]_vars

\* rt_sigprocmask or rt_sigreturn has returned, the guest makes no further
\* call, and s is one of several signals pending and not masked.
LeftUnmasked(s) ==
    /\ mpc = "guest" /\ script = <<>>
    /\ ret.call \in {"rt_sigprocmask", "rt_sigreturn"}
    /\ s \in pending \ mask
    /\ Cardinality(pending \ mask) >= 2

\* C35 as stated: each of several signals left pending and unmasked by
\* rt_sigprocmask or rt_sigreturn eventually leaves the pending set.
C35_NoneStaysPending ==
    \A s \in Sigs : LeftUnmasked(s) ~> s \notin pending

\* The events sys_poll reported for the descriptor numbered i: the revents of
\* the entry of the array whose fd is i.
Reported(i) == UNION {sel.fds[k].revents : k \in {j \in 1 .. sel.cnt : sel.fds[j].fd = i}}

\* C36: when select returns r > 0, descriptor i below nfds is in readfds,
\* writefds or exceptfds on return exactly when it was in that set on entry
\* and sys_poll reported POLLIN, POLLOUT or POLLERR for the descriptor
\* numbered i.
C36_SelectResultSets ==
    sel.pc = "done" /\ sel.ret > 0 =>
        \A i \in 0 .. sel.nfds - 1 :
            /\ sel.readfds.ptr =>
                  (i \in sel.readfds.bits <=> i \in sel.in.readfds /\ "POLLIN" \in Reported(i))
            /\ sel.writefds.ptr =>
                  (i \in sel.writefds.bits <=> i \in sel.in.writefds /\ "POLLOUT" \in Reported(i))
            /\ sel.exceptfds.ptr =>
                  (i \in sel.exceptfds.bits
                      <=> i \in sel.in.exceptfds /\ "POLLERR" \in Reported(i))

\* C37: a syscall that takes a descriptor reads and writes vfs->fds only at
\* indices from 0 to MAX_FD_COUNT - 1, and when its fd is not one of these it
\* returns -EBADF.
C37_TableBounds ==
    fdcall.call # "none" =>
        /\ fdcall.read \cup fdcall.written \subseteq Fds
        /\ fdcall.fd \notin Fds => fdcall.ret = -EBADF

\* C38: the instruction pointer signal_setup_handler installs, kept in the
\* frame it pushes, is the address of a custom handler, never SIG_DFL or
\* SIG_IGN, whatever rt_sigaction the main thread performs between the
\* worker's decision to deliver and signal_setup_handler.
C38_HandlerAddress ==
    \A k \in 1 .. Len(frames) : frames[k].ip \notin {SIG_DFL, SIG_IGN}

\* The worker has decided to deliver and has not yet stored current_siginfo.
BeforeStore == wpc \in {"d_suspend", "d_getcontext", "d_siginfo"}

C40_MutexProgress ==
    /\ [](suspended => mutex = "worker")
    /\ [][ /\ ~suspended /\ suspended' => mutex = "worker" /\ mutex' = "worker"
           /\ mutex = "worker" /\ mutex' # "worker" => ~suspended
         ]_vars
    /\ (mutex = "main") ~> (mutex # "main")
    /\ (mutex = "worker") ~> (mutex # "worker" \/ exited)

\* C40 witness: the main thread is suspended by the worker while it waits for
\* the mutex the worker holds.
C40_Witness == suspended /\ mutex = "worker" /\ mpc = "enter"
====
